---------------------------- MODULE Spec2Model ----------------------------
(***************************************************************************)
(* Model of the Asana MCP server of agents-os: the tool handler            *)
(* (handlers/tool-handler.ts), its zod schemas (schemas/base.ts,           *)
(* schemas/tool-schemas.ts, schemas/search-schemas.ts), the client wrapper *)
(* (core/client.ts), the pagination helpers (utils/pagination.ts) and the  *)
(* error helpers (utils/errors.ts, utils/error-handler.ts).                *)
(*                                                                         *)
(* JavaScript values are wrapped so that values of different types can be  *)
(* compared: a string is [s |-> <<characters>>], a boolean [b |-> ..], a   *)
(* number [half |-> ..], an array [a |-> <<..>>], an object [o |-> function]. *)
(* Object keys and enum tokens are TLA+ strings.                           *)
(***************************************************************************)
EXTENDS Integers, Sequences, FiniteSets, TLC

VARIABLES
    listIn,     \* CommaListSchema: the input string (a sequence of characters)
    listPc,     \* "input" | "done"
    listOut,    \* the parse result of GidListSchema
    limIn,      \* pagination limit: the caller's value (or undefined)
    limDone,    \* which of the two limit validators have run
    limTool,    \* result of a tool schema's limit field
    limPage,    \* result of createPaginationParams
    sPc,        \* searchTasks called directly: "call" | "awaiting" | "done"
    sArgs,      \* its arguments [workspace, opts]
    sReq,       \* the requests it has issued to the vendor SDK
    sRes,       \* what it returned or threw
    isReadOnlyMode, \* process.env.READ_ONLY_MODE === 'true', fixed at load
    hPc,        \* the tool handler: "request" | "awaiting" | "done"
    hReq,       \* the CallToolRequest: [name, args]
    hValidated, \* the schemas the handler has applied to the arguments
    hOut,       \* the requests issued to the vendor SDK
    hThrown,    \* the errors thrown inside the operation
    hWait,      \* the requests (indexes of hOut) that await the vendor's answer
    hGot,       \* the answers received, in the order they arrived
    hRes,       \* what the caller gets
    vPc,        \* a validator called on its own: "input" | "done"
    vIn,        \* [tool, args]: whose schema, and the argument bag
    vOut,       \* the parsed data, or the error the validator throws
    ePc,        \* the error classifier called on its own: "input" | "done"
    eIn,        \* the value that was thrown
    eOut,       \* the classification, and what safeOperation makes of it
    slackServer, \* which Slack server runs: "index" | "enhanced"
    config, \* its environment: [botToken, oauth, channelIds]
    slack, \* the module-level WebClient: [token]
    slCalls, \* the tool calls in flight, by slot
    slLast, \* what the latest step of a tool call did
    rPc, \* the response transform applied to one item: "input" | "done"
    rIn, \* the item of the vendor's response
    rOut, \* the item searchTasks returns for it
    pgPc, \* collectAllPages: "call" | "awaiting" | "done"
    maxPages, \* its maxPages argument
    pgReqs, \* the parameters of the requests it issued, in order
    pgResps, \* the responses it received, in order
    currentOffset, \* its local currentOffset
    pageCount, \* its local pageCount
    allResults, \* its local allResults
    pgRes  \* what the call returned or threw

listVars == <<listIn, listPc, listOut>>
limVars == <<limIn, limDone, limTool, limPage>>
searchVars == <<sPc, sArgs, sReq, sRes>>
handlerVars == <<isReadOnlyMode, hPc, hReq, hValidated, hOut, hThrown, hWait, hGot, hRes>>
validateVars == <<vPc, vIn, vOut>>
classifyVars == <<ePc, eIn, eOut>>
slackVars == <<slackServer, config, slack, slCalls, slLast>>
reshapeVars == <<rPc, rIn, rOut>>
pagesVars == <<pgPc, maxPages, pgReqs, pgResps, currentOffset, pageCount, allResults, pgRes>>

\* What each part of the program leaves alone.
exceptList == <<limVars, searchVars, handlerVars, validateVars, classifyVars, slackVars, reshapeVars, pagesVars>>
exceptLimit == <<listVars, searchVars, handlerVars, validateVars, classifyVars, slackVars, reshapeVars, pagesVars>>
exceptSearch == <<listVars, limVars, handlerVars, validateVars, classifyVars, slackVars, reshapeVars, pagesVars>>
exceptHandler == <<listVars, limVars, searchVars, validateVars, classifyVars, slackVars, reshapeVars, pagesVars>>
exceptValidate == <<listVars, limVars, searchVars, handlerVars, classifyVars, slackVars, reshapeVars, pagesVars>>
exceptClassify == <<listVars, limVars, searchVars, handlerVars, validateVars, slackVars, reshapeVars, pagesVars>>
exceptSlack == <<listVars, limVars, searchVars, handlerVars, validateVars, classifyVars, reshapeVars, pagesVars>>
exceptReshape == <<listVars, limVars, searchVars, handlerVars, validateVars, classifyVars, slackVars, pagesVars>>
exceptPages == <<listVars, limVars, searchVars, handlerVars, validateVars, classifyVars, slackVars, reshapeVars>>

vars == <<listIn, listPc, listOut, limIn, limDone, limTool, limPage,
          sPc, sArgs, sReq, sRes,
          isReadOnlyMode, hPc, hReq, hValidated, hOut, hThrown, hWait, hGot, hRes,
          vPc, vIn, vOut, ePc, eIn, eOut,
          slackServer, config, slack, slCalls, slLast,
          rPc, rIn, rOut,
          pgPc, maxPages, pgReqs, pgResps, currentOffset, pageCount, allResults, pgRes>>

(***************************************************************************)
(* Bounds                                                                  *)
(***************************************************************************)
MaxLen == 4
\* Largest number offered as a limit (numbers run from -1 to MaxLimit).
MaxLimit == 102

(***************************************************************************)
(* Strings as sequences of characters                                      *)
(***************************************************************************)
Digits == {"0", "1", "2", "3", "4", "5", "6", "7", "8", "9"}

\* String.prototype.trim() removes these (the ones the model's inputs use).
WhiteSpace == {" ", "\t"}

Alphabet == {"1", "2", " ", ",", "a"}

StringsUpTo(n) == UNION {[1..k -> Alphabet] : k \in 0..n}

\* /^\d+$/.test(str)
IsGid(str) == Len(str) > 0 /\ \A i \in 1..Len(str) : str[i] \in Digits

RECURSIVE TrimStart(_)
TrimStart(str) ==
    IF str # <<>> /\ Head(str) \in WhiteSpace THEN TrimStart(Tail(str)) ELSE str

RECURSIVE TrimEnd(_)
TrimEnd(str) ==
    IF str # <<>> /\ str[Len(str)] \in WhiteSpace
    THEN TrimEnd(SubSeq(str, 1, Len(str) - 1))
    ELSE str

\* s.trim()
Trim(str) == TrimEnd(TrimStart(str))

\* str.split(','): scans the characters, closing a piece at every comma.
RECURSIVE SplitFrom(_, _, _)
SplitFrom(str, i, cur) ==
    IF i > Len(str) THEN <<cur>>
    ELSE IF str[i] = "," THEN <<cur>> \o SplitFrom(str, i + 1, <<>>)
    ELSE SplitFrom(str, i + 1, Append(cur, str[i]))

Split(str) == SplitFrom(str, 1, <<>>)

\* array.map(f)
RECURSIVE MapTrim(_)
MapTrim(items) ==
    IF items = <<>> THEN <<>> ELSE <<Trim(Head(items))>> \o MapTrim(Tail(items))

\* array.filter(Boolean) on strings: the empty string is falsy
RECURSIVE FilterBoolean(_)
FilterBoolean(items) ==
    IF items = <<>> THEN <<>>
    ELSE IF Head(items) = <<>> THEN FilterBoolean(Tail(items))
    ELSE <<Head(items)>> \o FilterBoolean(Tail(items))

\* A buggy variant: empty pieces are kept.
CommaListKeepEmpty(str) == MapTrim(Split(str))

\* A buggy variant: repeated identifiers are dropped.
RECURSIVE Dedupe(_)
Dedupe(items) ==
    IF items = <<>> THEN <<>>
    ELSE LET init == Dedupe(SubSeq(items, 1, Len(items) - 1))
             last == items[Len(items)]
         IN IF \E i \in 1..Len(init) : init[i] = last THEN init
            ELSE Append(init, last)

CommaListDeduped(str) == Dedupe(FilterBoolean(MapTrim(Split(str))))

\* CommaListSchema: str.split(',').map(s => s.trim()).filter(Boolean)
CommaListSchema(str) == FilterBoolean(MapTrim(Split(str)))

\* GidListSchema = CommaListSchema.pipe(z.array(GidSchema)): the transformed
\* array is validated element by element; issues holds the failing indices.
GidListSchema(str) ==
    LET items == CommaListSchema(str)
        bad == {i \in 1..Len(items) : ~IsGid(items[i])}
    IN [ok |-> bad = {}, data |-> items, issues |-> bad]

(***************************************************************************)
(* JavaScript values                                                       *)
(***************************************************************************)
Undefined == [undef |-> TRUE]
NaN == [nan |-> TRUE]
Str(chars) == [s |-> chars]
Bool(b) == [b |-> b]
\* Numbers are kept in halves, so that 1.5 can be told from an integer.
Num(k) == [half |-> 2 * k]
Half(h) == [half |-> h]

Null == [null |-> TRUE]
Arr(items) == [a |-> items]
Obj(f) == [o |-> f]
\* The object with no own property.
EmptyMap == [k \in {} |-> Undefined]

IsUndefined(v) == DOMAIN v = {"undef"}
IsNull(v) == DOMAIN v = {"null"}
IsStr(v) == DOMAIN v = {"s"}
IsBool(v) == DOMAIN v = {"b"}
IsArr(v) == DOMAIN v = {"a"}
IsObj(v) == DOMAIN v = {"o"}
\* typeof v === "number" && !isNaN(v): what z.number() accepts
IsNumber(v) == DOMAIN v = {"half"}
IsInteger(v) == IsNumber(v) /\ v.half % 2 = 0

\* typeof v === "object" (null and arrays included)
TypeofObject(v) == IsNull(v) \/ IsArr(v) \/ IsObj(v)

\* JavaScript truthiness
Truthy(v) ==
    IF IsUndefined(v) \/ IsNull(v) \/ v = NaN THEN FALSE
    ELSE IF IsStr(v) THEN v.s # <<>>
    ELSE IF IsBool(v) THEN v.b
    ELSE IF IsNumber(v) THEN v.half # 0
    ELSE TRUE

\* obj[key]: undefined when the object has no such property
Get(f, key) == IF key \in DOMAIN f THEN f[key] ELSE Undefined

\* const { key, ...rest } = obj
Rest(f, keys) == [k \in (DOMAIN f) \ keys |-> f[k]]

\* { ...f, ...g }
Spread(f, g) == [k \in (DOMAIN f) \cup (DOMAIN g) |-> IF k \in DOMAIN g THEN g[k] ELSE f[k]]

\* The characters of a string joined into one TLA+ string (an object key).
RECURSIVE Join(_)
Join(chars) == IF chars = <<>> THEN "" ELSE Head(chars) \o Join(Tail(chars))

DigitSeq == <<"0", "1", "2", "3", "4", "5", "6", "7", "8", "9">>
DigitVal(c) == (CHOOSE i \in 1..10 : DigitSeq[i] = c) - 1

RECURSIVE DecimalValue(_)
DecimalValue(chars) ==
    IF chars = <<>> THEN 0
    ELSE 10 * DecimalValue(SubSeq(chars, 1, Len(chars) - 1))
             + DigitVal(chars[Len(chars)])

\* Number(str) for the strings of the model: blank is 0, an optionally signed
\* run of digits is its value, anything else is NaN.
ToNumber(chars) ==
    LET body == Trim(chars) IN
    IF body = <<>> THEN Num(0)
    ELSE IF IsGid(body) THEN Num(DecimalValue(body))
    ELSE IF Head(body) = "-" /\ IsGid(Tail(body)) THEN Num(0 - DecimalValue(Tail(body)))
    ELSE NaN

\* String(v), `${v}`: a scalar as text
Display(v) ==
    IF IsUndefined(v) THEN "undefined"
    ELSE IF IsNull(v) THEN "null"
    ELSE IF IsStr(v) THEN Join(v.s)
    ELSE IF IsBool(v) THEN (IF v.b THEN "true" ELSE "false")
    ELSE ToString(v.half \div 2)

(***************************************************************************)
(* JSON.parse, for the JSON texts of the model: objects, strings without   *)
(* escapes, unsigned integers, true, false and null, with white space      *)
(* between the tokens.  A result is [ok, val, next]; ok = FALSE is the     *)
(* SyntaxError JSON.parse throws.                                          *)
(***************************************************************************)
JsonWhiteSpace == {" ", "\t", "\n"}

RECURSIVE SkipWs(_, _)
SkipWs(str, i) ==
    IF i <= Len(str) /\ str[i] \in JsonWhiteSpace THEN SkipWs(str, i + 1) ELSE i

JsonFail == [ok |-> FALSE, val |-> Undefined, next |-> 0]

StartsWith(str, i, lit) ==
    /\ i + Len(lit) - 1 <= Len(str)
    /\ SubSeq(str, i, i + Len(lit) - 1) = lit

\* str[i] is the opening quote
ParseString(str, i) ==
    LET closing == {k \in (i + 1)..Len(str) : str[k] = "\""}
    IN IF closing = {} THEN JsonFail
       ELSE LET k == CHOOSE c \in closing : \A d \in closing : c <= d
            IN IF \E m \in (i + 1)..(k - 1) : str[m] = "\\" THEN JsonFail
               ELSE [ok |-> TRUE, val |-> Str(SubSeq(str, i + 1, k - 1)), next |-> k + 1]

\* str[i] is a digit
ParseNumber(str, i) ==
    LET stops == {k \in i..Len(str) : str[k] \notin Digits}
        e == IF stops = {} THEN Len(str) + 1
             ELSE CHOOSE c \in stops : \A d \in stops : c <= d
    IN IF str[i] = "0" /\ e > i + 1 THEN JsonFail
       ELSE [ok |-> TRUE, val |-> Num(DecimalValue(SubSeq(str, i, e - 1))), next |-> e]

RECURSIVE ParseValue(_, _)
RECURSIVE ParsePairs(_, _, _)

\* The members of an object, str[i..] starting at a key; acc holds the
\* members read so far (a repeated key keeps its last value).
ParsePairs(str, i, acc) ==
    LET j == SkipWs(str, i) IN
    IF j > Len(str) \/ str[j] # "\"" THEN JsonFail
    ELSE LET key == ParseString(str, j) IN
         IF ~key.ok THEN JsonFail
         ELSE LET c == SkipWs(str, key.next) IN
              IF c > Len(str) \/ str[c] # ":" THEN JsonFail
              ELSE LET v == ParseValue(str, c + 1) IN
                   IF ~v.ok THEN JsonFail
                   ELSE LET n == SkipWs(str, v.next)
                            acc2 == Spread(acc, Join(key.val.s) :> v.val)
                        IN IF n > Len(str) THEN JsonFail
                           ELSE IF str[n] = "," THEN ParsePairs(str, n + 1, acc2)
                           ELSE IF str[n] = "}"
                                THEN [ok |-> TRUE, val |-> Obj(acc2), next |-> n + 1]
                           ELSE JsonFail

ParseValue(str, i) ==
    LET j == SkipWs(str, i) IN
    IF j > Len(str) THEN JsonFail
    ELSE IF str[j] = "{" THEN
         LET k == SkipWs(str, j + 1) IN
         IF k <= Len(str) /\ str[k] = "}"
         THEN [ok |-> TRUE, val |-> Obj(EmptyMap), next |-> k + 1]
         ELSE ParsePairs(str, k, EmptyMap)
    ELSE IF str[j] = "\"" THEN ParseString(str, j)
    ELSE IF str[j] \in Digits THEN ParseNumber(str, j)
    ELSE IF StartsWith(str, j, <<"t", "r", "u", "e">>)
         THEN [ok |-> TRUE, val |-> Bool(TRUE), next |-> j + 4]
    ELSE IF StartsWith(str, j, <<"f", "a", "l", "s", "e">>)
         THEN [ok |-> TRUE, val |-> Bool(FALSE), next |-> j + 5]
    ELSE IF StartsWith(str, j, <<"n", "u", "l", "l">>)
         THEN [ok |-> TRUE, val |-> Null, next |-> j + 4]
    ELSE JsonFail

\* JSON.parse(text)
JsonParse(str) ==
    LET r == ParseValue(str, 1) IN
    IF r.ok /\ SkipWs(str, r.next) > Len(str) THEN r ELSE JsonFail

(***************************************************************************)
(* Errors (utils/errors.ts, utils/error-handler.ts)                        *)
(*                                                                         *)
(* A message is its text and the marker words the code searches it for     *)
(* ("timeout", "400").  A thrown object carries the fields the classifier  *)
(* reads; 0, "" and <<>> stand for an absent (falsy) field.                *)
(***************************************************************************)
Msg(text, words) == [text |-> text, words |-> words]

JsError(cls, msg) ==
    [cls |-> cls, msg |-> msg, code |-> "", status |-> 0, statusCode |-> 0,
     respStatus |-> 0, respStatusText |-> "", respErrors |-> <<>>,
     hasValueErrors |-> FALSE, valueErrors |-> <<>>]

\* context ? `${context}: ${message}` : message
WithContext(context, msg) ==
    IF context = "" THEN msg ELSE Msg(context \o ": " \o msg.text, msg.words)

Enhanced(msg, status, code, context) ==
    [threw |-> FALSE, message |-> msg, status |-> status, code |-> code, context |-> context]

\* A TypeError thrown out of the classifier: error.value.errors[0] of an
\* empty array is undefined and its message is read; error.message?.includes
\* is called on a message that is not a string.
EnhanceThrows == [threw |-> TRUE, message |-> Msg("TypeError", {}), status |-> 0,
                  code |-> "", context |-> ""]

TransportCodes == {"ENOTFOUND", "ECONNREFUSED", "ETIMEDOUT"}

\* What was thrown is an object (an Error or a plain object), not a scalar.
IsThrownObject(error) == "cls" \in DOMAIN error

\* error.message is a string
IsText(msg) == "text" \in DOMAIN msg

\* enhanceAsanaError(error, context)
EnhanceAsanaError(error, context) ==
    IF ~IsThrownObject(error) THEN
        \* every `error && ...` test fails or reads undefined properties
        Enhanced(WithContext(context,
                     Msg(IF Display(error) # "" THEN Display(error)
                         ELSE "Unknown error occurred", {})),
                 0, "", context)
    ELSE IF error.hasValueErrors THEN
        IF error.valueErrors = <<>> THEN EnhanceThrows
        ELSE Enhanced(WithContext(context, error.valueErrors[1].message),
                      IF error.status # 0 THEN error.status ELSE error.statusCode,
                      IF error.valueErrors[1].phrase # "" THEN error.valueErrors[1].phrase
                      ELSE "ASANA_API_ERROR",
                      context)
    ELSE IF error.respStatus # 0 THEN
        Enhanced(WithContext(context,
                     IF error.respErrors # <<>> /\ error.respErrors[1].text # ""
                     THEN error.respErrors[1]
                     ELSE Msg("HTTP " \o ToString(error.respStatus) \o " "
                                  \o (IF error.respStatusText # "" THEN error.respStatusText
                                      ELSE "Unknown Error"), {})),
                 error.respStatus, "HTTP_" \o ToString(error.respStatus), context)
    ELSE IF error.code = "ENOTFOUND" THEN
        Enhanced(WithContext(context,
                     Msg("Network connection failed - unable to reach Asana API", {})),
                 0, "NETWORK_ERROR", context)
    ELSE IF error.code = "ECONNREFUSED" THEN
        Enhanced(WithContext(context, Msg("Connection refused by Asana API", {})),
                 0, "CONNECTION_REFUSED", context)
    ELSE IF error.code # "ETIMEDOUT" /\ ~IsText(error.msg) /\ ~IsUndefined(error.msg)
            /\ ~IsNull(error.msg) THEN
        \* error.message?.includes is not a function
        EnhanceThrows
    ELSE IF error.code = "ETIMEDOUT" \/ (IsText(error.msg) /\ "timeout" \in error.msg.words) THEN
        Enhanced(WithContext(context,
                     Msg("Request timeout - Asana API did not respond in time", {"timeout"})),
                 0, "TIMEOUT", context)
    ELSE IF error.status = 401 THEN
        Enhanced(WithContext(context,
                     Msg("Authentication failed - check your Asana access token", {})),
                 401, "UNAUTHORIZED", context)
    ELSE IF error.status = 403 THEN
        Enhanced(WithContext(context,
                     Msg("Permission denied - insufficient privileges for this operation", {})),
                 403, "FORBIDDEN", context)
    ELSE IF error.status = 404 THEN
        Enhanced(WithContext(context,
                     Msg("Resource not found - the requested item may have been deleted or doesn't exist", {})),
                 404, "NOT_FOUND", context)
    ELSE IF error.status = 429 THEN
        Enhanced(WithContext(context,
                     Msg("Rate limit exceeded - please wait before making more requests", {})),
                 429, "RATE_LIMITED", context)
    ELSE IF error.status = 500 THEN
        Enhanced(WithContext(context,
                     Msg("Asana server error - please try again later", {})),
                 500, "SERVER_ERROR", context)
    ELSE Enhanced(WithContext(context,
                      IF IsText(error.msg) /\ error.msg.text # "" THEN error.msg
                      ELSE Msg("[object Object]", {})),
                  0, "", context)

McpError(code, msg, suggestion, status) ==
    [kind |-> "error", mcp |-> code, msg |-> msg, suggestion |-> suggestion,
     status |-> status]

\* asanaErrorToMcpError(enhancedError)
AsanaErrorToMcpError(e) ==
    IF e.code = "UNAUTHORIZED" THEN
        McpError("InvalidRequest", e.message,
                 "Please verify your Asana access token is valid and has not expired", e.status)
    ELSE IF e.code = "FORBIDDEN" THEN
        McpError("InvalidRequest", e.message,
                 "Check that your access token has the required permissions for this workspace and operation",
                 e.status)
    ELSE IF e.code = "NOT_FOUND" THEN
        McpError("InvalidParams", e.message,
                 "Verify the GID is correct and the resource still exists", e.status)
    ELSE IF e.code = "RATE_LIMITED" THEN
        McpError("InternalError", e.message,
                 "Wait a few moments before retrying the request", e.status)
    ELSE IF e.code \in {"NETWORK_ERROR", "CONNECTION_REFUSED", "TIMEOUT"} THEN
        McpError("InternalError", e.message,
                 "Check your internet connection and try again", e.status)
    ELSE IF e.code = "SERVER_ERROR" THEN
        McpError("InternalError", e.message,
                 "This is an Asana server issue. Please try again later", e.status)
    ELSE IF e.status >= 400 /\ e.status < 500 THEN
        McpError("InvalidParams", e.message, "", e.status)
    ELSE McpError("InternalError", e.message, "", e.status)

\* A TypeError that escapes safeOperation: the caller gets no McpError.
RawThrow(msg) == [kind |-> "throw", mcp |-> "", msg |-> msg, suggestion |-> "", status |-> 0]

\* The context of the AsanaAPIError that ErrorHandlers.handleAsanaError
\* builds: the subclasses for 401, 403, 404 and 429 set their own.
HandlerContext(status, context) ==
    IF status = 401 THEN "Authentication"
    ELSE IF status = 403 THEN "Permissions"
    ELSE IF status = 404 THEN "Resource Lookup"
    ELSE IF status = 429 THEN "Rate Limiting"
    ELSE context

\* The catch block of ErrorHandlers.safeOperation for an error that is
\* neither a ValidationError nor an AsanaAPIError: handleAsanaError(error,
\* context), then toMcpError(), which classifies the original error again
\* under the context of the AsanaAPIError built.
SafeOperationCatch(error, context) ==
    LET first == EnhanceAsanaError(error, context) IN
    IF first.threw THEN RawThrow(first.message)
    ELSE LET again == EnhanceAsanaError(error, HandlerContext(first.status, context))
         IN IF again.threw THEN RawThrow(again.message)
            ELSE AsanaErrorToMcpError(again)

(***************************************************************************)
(* AsanaClientWrapper.searchTasks (core/client.ts)                         *)
(***************************************************************************)
\* Object.entries(v) of an object or an array, as [key, val] records
Entries(v) ==
    IF IsObj(v) THEN {[key |-> k, val |-> v.o[k]] : k \in DOMAIN v.o}
    ELSE IF IsArr(v) THEN {[key |-> ToString(i - 1), val |-> v.a[i]] : i \in 1..Len(v.a)}
    ELSE {}

\* The assignments searchParams[`custom_fields.${key}.${operation}`] = ...
\* of the two nested forEach loops.  (The field ids and operators of the
\* model hold no '.', so no two entries write the same key.)
ExpansionOf(cf) ==
    UNION { IF TypeofObject(e.val) /\ ~IsNull(e.val)
            THEN {[key |-> "custom_fields." \o e.key \o "." \o oe.key, val |-> oe.val]
                      : oe \in Entries(e.val)}
            ELSE {[key |-> "custom_fields." \o e.key \o ".value", val |-> e.val]}
          : e \in Entries(cf) }

AsMap(pairs) ==
    [k \in {pr.key : pr \in pairs} |-> (CHOOSE pr \in pairs : pr.key = k).val]

\* A buggy variant: the nested object is left in the outbound parameters.
ExpandCustomFieldsKeeping(params) ==
    LET cf == Get(params, "custom_fields") IN
    IF Truthy(cf) /\ TypeofObject(cf) THEN Spread(params, AsMap(ExpansionOf(cf)))
    ELSE params

\* client.ts 76-90: expand searchParams.custom_fields, then delete it
ExpandCustomFields(params) ==
    LET cf == Get(params, "custom_fields") IN
    IF Truthy(cf) /\ TypeofObject(cf)
    THEN Rest(Spread(params, AsMap(ExpansionOf(cf))), {"custom_fields"})
    ELSE params

VendorRequest(api, target, params) == [api |-> api, target |-> target, params |-> params]

\* client.ts 59-92: searchTasks up to the call of the SDK; it either throws
\* (a custom_fields string that JSON.parse rejects) or issues one request.
SearchTasksRequest(workspace, searchOpts) ==
    LET cf == Get(searchOpts, "custom_fields")
        parsed == IF Truthy(cf) /\ IsStr(cf) THEN JsonParse(cf.s) ELSE JsonFail
    IN IF Truthy(cf) /\ IsStr(cf) /\ ~parsed.ok
       THEN [threw |-> TRUE,
             error |-> JsError("SyntaxError",
                               Msg("custom_fields must be a JSON object : Unexpected token", {})),
             request |-> VendorRequest("", Undefined, EmptyMap)]
       ELSE [threw |-> FALSE,
             error |-> JsError("", Msg("", {})),
             request |-> VendorRequest("tasks.searchTasksForWorkspace", workspace,
                             ExpandCustomFields(
                                 IF Truthy(cf) /\ IsStr(cf)
                                 THEN Spread(searchOpts, "custom_fields" :> parsed.val)
                                 ELSE searchOpts))]

\* Strings of a vendor response are opaque text.
Text(str) == [t |-> str]

\* `${v}` of a text or of null
TemplateText(v) == IF IsNull(v) THEN "null" ELSE v.t

\* client.ts 100-111: the reduce over task.custom_fields
RECURSIVE ReduceFields(_)
ReduceFields(fields) ==
    IF fields = <<>> THEN EmptyMap
    ELSE LET field == fields[Len(fields)]
             key == field.name \o " (" \o field.gid \o ")"
             value == IF field.type = "enum" /\ Truthy(field.enum_value)
                      THEN Text(TemplateText(field.display_value) \o " ("
                                    \o field.enum_value.o["gid"].t \o ")")
                      ELSE field.display_value
         IN Spread(ReduceFields(SubSeq(fields, 1, Len(fields) - 1)), key :> value)

\* A buggy variant: every item gets a custom_fields map.
TransformTaskEager(task) ==
    Spread(task, "custom_fields" :>
                     Obj(IF Truthy(Get(task, "custom_fields"))
                         THEN ReduceFields(task["custom_fields"].a) ELSE EmptyMap))

\* client.ts 95-113: the transform of one task of the response
TransformTask(task) ==
    IF ~Truthy(Get(task, "custom_fields")) THEN task
    ELSE Spread(task, "custom_fields" :> Obj(ReduceFields(task["custom_fields"].a)))

RECURSIVE TransformData(_)
TransformData(data) ==
    IF data = <<>> THEN <<>>
    ELSE <<TransformTask(Head(data))>> \o TransformData(Tail(data))

(***************************************************************************)
(* Each specification runs one part of the program; the others are idle.   *)
(***************************************************************************)
ListIdle ==
    /\ listIn = <<>>
    /\ listPc = "off"
    /\ listOut = [ok |-> TRUE, data |-> <<>>, issues |-> {}]

LimIdle ==
    /\ limIn = Undefined
    /\ limDone = {"off"}
    /\ limTool = [ok |-> TRUE, value |-> Undefined]
    /\ limPage = [ok |-> TRUE, limit |-> Undefined]

SearchIdle ==
    /\ sPc = "off"
    /\ sArgs = [workspace |-> Undefined, opts |-> EmptyMap]
    /\ sReq = <<>>
    /\ sRes = [kind |-> "none"]

HandlerIdle ==
    /\ isReadOnlyMode = FALSE
    /\ hPc = "off"
    /\ hReq = [name |-> "", args |-> Undefined]
    /\ hValidated = <<>>
    /\ hOut = <<>>
    /\ hThrown = <<>>
    /\ hWait = {}
    /\ hGot = <<>>
    /\ hRes = [kind |-> "none"]

ValidateIdle ==
    /\ vPc = "off"
    /\ vIn = [tool |-> "", args |-> Undefined]
    /\ vOut = [kind |-> "none"]

ClassifyIdle ==
    /\ ePc = "off"
    /\ eIn = Undefined
    /\ eOut = [kind |-> "none"]

SlackIdle ==
    /\ slackServer = "off"
    /\ config = [botToken |-> "", oauth |-> FALSE, channelIds |-> ""]
    /\ slack = [token |-> ""]
    /\ slCalls = <<>>
    /\ slLast = [event |-> "off"]

ReshapeIdle ==
    /\ rPc = "off"
    /\ rIn = <<>>
    /\ rOut = <<>>

PagesIdle ==
    /\ pgPc = "off"
    /\ maxPages = 0
    /\ pgReqs = <<>>
    /\ pgResps = <<>>
    /\ currentOffset = Undefined
    /\ pageCount = 0
    /\ allResults = <<>>
    /\ pgRes = [kind |-> "none"]

IdleExceptList == LimIdle /\ SearchIdle /\ HandlerIdle /\ ValidateIdle /\ ClassifyIdle /\ SlackIdle /\ ReshapeIdle /\ PagesIdle
IdleExceptLimit == ListIdle /\ SearchIdle /\ HandlerIdle /\ ValidateIdle /\ ClassifyIdle /\ SlackIdle /\ ReshapeIdle /\ PagesIdle
IdleExceptSearch == ListIdle /\ LimIdle /\ HandlerIdle /\ ValidateIdle /\ ClassifyIdle /\ SlackIdle /\ ReshapeIdle /\ PagesIdle
IdleExceptHandler == ListIdle /\ LimIdle /\ SearchIdle /\ ValidateIdle /\ ClassifyIdle /\ SlackIdle /\ ReshapeIdle /\ PagesIdle
IdleExceptValidate == ListIdle /\ LimIdle /\ SearchIdle /\ HandlerIdle /\ ClassifyIdle /\ SlackIdle /\ ReshapeIdle /\ PagesIdle
IdleExceptClassify == ListIdle /\ LimIdle /\ SearchIdle /\ HandlerIdle /\ ValidateIdle /\ SlackIdle /\ ReshapeIdle /\ PagesIdle
IdleExceptSlack == ListIdle /\ LimIdle /\ SearchIdle /\ HandlerIdle /\ ValidateIdle /\ ClassifyIdle /\ ReshapeIdle /\ PagesIdle
IdleExceptReshape == ListIdle /\ LimIdle /\ SearchIdle /\ HandlerIdle /\ ValidateIdle /\ ClassifyIdle /\ SlackIdle /\ PagesIdle
IdleExceptPages == ListIdle /\ LimIdle /\ SearchIdle /\ HandlerIdle /\ ValidateIdle /\ ClassifyIdle /\ SlackIdle /\ ReshapeIdle

(***************************************************************************)
(* The pagination limit: LimitSchema and createPaginationParams            *)
(***************************************************************************)
LimitMin == 1
LimitMax == 100
PageLimitMin == 1
PageLimitMax == 100
DefaultLimit == 20
ClampLimit == 100

\* A buggy variant: 0 is let through.
LimitSchemaFromZero(v) == IsInteger(v) /\ v.half >= 0 /\ v.half <= 2 * LimitMax

\* LimitSchema = z.number().int().min(1).max(100)
LimitSchema(v) == IsInteger(v) /\ v.half >= 2 * LimitMin /\ v.half <= 2 * LimitMax

\* The limit field of the tool schemas:
\* z.union([z.number(), z.string().transform(Number)]).pipe(LimitSchema).optional()
ToolLimitField(v) ==
    IF IsUndefined(v) THEN [ok |-> TRUE, value |-> Undefined]
    ELSE IF IsNumber(v) THEN [ok |-> LimitSchema(v), value |-> v]
    ELSE IF IsStr(v) THEN [ok |-> LimitSchema(ToNumber(v.s)), value |-> ToNumber(v.s)]
    ELSE [ok |-> FALSE, value |-> v]

\* PaginationOptionsSchema.limit = z.number().min(1).max(100).optional()
PaginationOptionsSchema(v) ==
    \/ IsUndefined(v)
    \/ IsNumber(v) /\ v.half >= 2 * PageLimitMin /\ v.half <= 2 * PageLimitMax

MathMin(v, k) == IF v.half <= 2 * k THEN v ELSE Num(k)

\* A buggy variant: the range is not checked, the value is clamped.
CreatePaginationParamsClamping(v) ==
    IF ~(IsUndefined(v) \/ IsNumber(v)) THEN [ok |-> FALSE, limit |-> Undefined]
    ELSE IF IsUndefined(v) THEN [ok |-> TRUE, limit |-> Num(DefaultLimit)]
    ELSE [ok |-> TRUE,
          limit |-> IF v.half < 2 * PageLimitMin THEN Num(PageLimitMin)
                    ELSE MathMin(v, ClampLimit)]

\* createPaginationParams: validatePaginationOptions throws on an invalid
\* option; then params.limit = Math.min(validated.limit || 20, 100).
CreatePaginationParams(v) ==
    IF ~PaginationOptionsSchema(v) THEN [ok |-> FALSE, limit |-> Undefined]
    ELSE [ok |-> TRUE,
          limit |-> MathMin(IF IsUndefined(v) \/ v.half = 0
                            THEN Num(DefaultLimit) ELSE v, ClampLimit)]

LimitStrings ==
    { <<>>, <<"0">>, <<"1">>, <<" ", "1", " ">>, <<"1", "0", "0">>,
      <<"1", "0", "1">>, <<"-", "1">>, <<"a">>, <<"2", "0">> }

LimitInputs ==
    {Undefined, NaN, Bool(TRUE)}
        \cup {Half(h) : h \in (0 - 2)..(2 * MaxLimit)}
        \cup {Str(c) : c \in LimitStrings}

LimInit ==
    /\ IdleExceptLimit
    /\ limIn \in LimitInputs
    /\ limDone = {}
    /\ limTool = [ok |-> TRUE, value |-> Undefined]
    /\ limPage = [ok |-> TRUE, limit |-> Undefined]

\* A tool schema parses its limit field.
ParseToolLimit ==
    /\ "off" \notin limDone
    /\ "tool" \notin limDone
    /\ limTool' = ToolLimitField(limIn)
    /\ limDone' = limDone \cup {"tool"}
    /\ UNCHANGED <<limIn, limPage, exceptLimit>>

\* A paginated client method builds its outbound limit.
BuildPaginationParams ==
    /\ "off" \notin limDone
    /\ "page" \notin limDone
    /\ limPage' = CreatePaginationParams(limIn)
    /\ limDone' = limDone \cup {"page"}
    /\ UNCHANGED <<limIn, limTool, exceptLimit>>

NextLimit == ParseToolLimit \/ BuildPaginationParams

SpecLimit == LimInit /\ [][NextLimit]_vars


(***************************************************************************)
(* Specification SpecList: GidListSchema applied to bounded inputs         *)
(***************************************************************************)
\* "1, 2 ,3,,4"
ScenarioList == <<"1", ",", " ", "2", " ", ",", "3", ",", ",", "4">>

ListInputs == StringsUpTo(MaxLen) \cup {ScenarioList}

ListInit ==
    /\ IdleExceptList
    /\ listIn \in ListInputs
    /\ listPc = "input"
    /\ listOut = [ok |-> TRUE, data |-> <<>>, issues |-> {}]

ParseGidList ==
    /\ listPc = "input"
    /\ listOut' = GidListSchema(listIn)
    /\ listPc' = "done"
    /\ UNCHANGED <<listIn, exceptList>>

NextList == ParseGidList

SpecList == ListInit /\ [][NextList]_vars

(***************************************************************************)
(* Claims on the comma-separated identifier list (SpecList)                *)
(***************************************************************************)
\* The reference rule, stated on positions instead of by scanning: a piece
\* starts at position 1 and after every comma and runs to the next comma.
PieceStarts(str) == {1} \cup {i + 1 : i \in {j \in 1..Len(str) : str[j] = ","}}

PieceEnd(str, p) ==
    LET commas == {j \in p..Len(str) : str[j] = ","}
    IN IF commas = {} THEN Len(str)
       ELSE (CHOOSE j \in commas : \A k \in commas : j <= k) - 1

Stripped(str, p) ==
    LET e == PieceEnd(str, p)
        solid == {j \in p..e : str[j] \notin WhiteSpace}
    IN IF solid = {} THEN <<>>
       ELSE SubSeq(str, CHOOSE j \in solid : \A k \in solid : j <= k,
                        CHOOSE j \in solid : \A k \in solid : j >= k)

KeptStarts(str) == {p \in PieceStarts(str) : Stripped(str, p) # <<>>}

\* C8: normalizing a comma-separated identifier list splits on ',', trims
\* every element, drops the empty elements and keeps the order of the rest;
\* "1, 2 ,3,,4" gives ["1","2","3","4"]; and the list is accepted exactly
\* when every remaining element is all digits.
C8_NormalizeList ==
    listPc = "done" =>
        /\ Len(listOut.data) = Cardinality(KeptStarts(listIn))
        /\ \A p \in KeptStarts(listIn) :
               listOut.data[Cardinality({q \in KeptStarts(listIn) : q <= p})]
                   = Stripped(listIn, p)
        /\ listOut.ok <=>
               \A i \in 1..Len(listOut.data) :
                   \A j \in 1..Len(listOut.data[i]) : listOut.data[i][j] \in Digits
        /\ listIn = ScenarioList =>
               /\ listOut.data = << <<"1">>, <<"2">>, <<"3">>, <<"4">> >>
               /\ listOut.ok

C8_Witness ==
    /\ listPc = "done"
    /\ listIn = ScenarioList
    /\ listOut.data = << <<"1">>, <<"2">>, <<"3">>, <<"4">> >>

\* C9 as stated: the produced sequence holds no identifier twice.
C9_NoDuplicates ==
    listPc = "done" =>
        \A i, j \in 1..Len(listOut.data) :
            i # j => listOut.data[i] # listOut.data[j]

\* C9 as amended: the list is not deduplicated; an identifier occurs in the
\* output as many times as it occurs (after trimming) among the input's
\* pieces.
C9_DuplicatesKept ==
    listPc = "done" =>
        \A i \in 1..Len(listOut.data) :
            Cardinality({k \in 1..Len(listOut.data) : listOut.data[k] = listOut.data[i]})
                = Cardinality({p \in PieceStarts(listIn) :
                                   Stripped(listIn, p) = listOut.data[i]})

C9_Witness ==
    /\ listPc = "done"
    /\ listOut.ok
    /\ \E i, j \in 1..Len(listOut.data) : i # j /\ listOut.data[i] = listOut.data[j]

(***************************************************************************)
(* Claims on the pagination limit (SpecLimit)                              *)
(***************************************************************************)
\* C10: both validators of the pagination limit (the tool schemas' limit
\* field built on LimitSchema, and createPaginationParams) accept 1 and 100,
\* reject every number below 1 or above 100 (0 and 101 in particular, also
\* when written as strings for the tool schemas), and hand an accepted
\* explicit value on unchanged: nothing is clamped, and only an omitted
\* limit is replaced by the default (20) when the outbound request is built.
C10_LimitRange ==
    /\ "tool" \in limDone =>
        /\ limIn \in {Num(1), Num(100)} => limTool.ok /\ limTool.value = limIn
        /\ limIn \in {Num(0), Num(101)} => ~limTool.ok
        /\ IsNumber(limIn) /\ (limIn.half < 2 \/ limIn.half > 200) => ~limTool.ok
        /\ limIn \in {Str(<<"0">>), Str(<<"1", "0", "1">>)} => ~limTool.ok
        /\ limIn = Str(<<"1">>) => limTool.ok /\ limTool.value = Num(1)
        /\ limIn = Str(<<"1", "0", "0">>) => limTool.ok /\ limTool.value = Num(100)
        /\ limTool.ok /\ IsNumber(limIn) => limTool.value = limIn
        /\ IsUndefined(limIn) => limTool.ok /\ limTool.value = Undefined
    /\ "page" \in limDone =>
        /\ limIn \in {Num(1), Num(100)} => limPage.ok /\ limPage.limit = limIn
        /\ limIn \in {Num(0), Num(101)} => ~limPage.ok
        /\ IsNumber(limIn) /\ (limIn.half < 2 \/ limIn.half > 200) => ~limPage.ok
        /\ limPage.ok /\ ~IsUndefined(limIn) => limPage.limit = limIn
        /\ IsUndefined(limIn) => limPage.ok /\ limPage.limit = Num(20)

C10_Witness ==
    /\ limDone = {"tool", "page"}
    /\ limIn = Num(101)
    /\ ~limTool.ok
    /\ ~limPage.ok

(***************************************************************************)
(* Specification SpecSearch: AsanaClientWrapper.searchTasks called with    *)
(* bounded search options, and the vendor's reply                          *)
(***************************************************************************)
Quoted(chars) == <<"\"">> \o chars \o <<"\"">>
High == <<"h", "i", "g", "h">>
Eng == <<"e", "n", "g">>
Chars111 == <<"1", "1", "1">>

\* {"111":"high"}
JsonScalarMap == <<"{">> \o Quoted(Chars111) \o <<":">> \o Quoted(High) \o <<"}">>
\* {"111":{"contains":"eng"}}
JsonOperatorMap ==
    <<"{">> \o Quoted(Chars111) \o <<":", "{">>
        \o Quoted(<<"c", "o", "n", "t", "a", "i", "n", "s">>) \o <<":">> \o Quoted(Eng)
        \o <<"}", "}">>
\* {"111":
JsonBroken == <<"{">> \o Quoted(Chars111) \o <<":">>

FieldIds == {"111", "222"}

ScalarValues == {Str(High), Num(5), Bool(TRUE), Null}

OperatorObjects ==
    { Obj("contains" :> Str(Eng)),
      Obj(("is_set" :> Bool(TRUE)) @@ ("value" :> Str(High))),
      Obj(EmptyMap) }

CustomFieldMaps ==
    UNION {[ids -> ScalarValues \cup OperatorObjects] : ids \in SUBSET FieldIds}

CustomFieldsArguments ==
    {Obj(m) : m \in CustomFieldMaps}
        \cup {Str(JsonScalarMap), Str(JsonOperatorMap), Str(JsonBroken), Str(<<"5">>),
              Str(<<>>), Null}

BaseSearchOpts ==
    { EmptyMap,
      "text" :> Str(<<"x">>),
      ("custom_fields.111.value" :> Str(<<"o", "l", "d">>))
          @@ ("projects.any" :> Arr(<<Str(<<"1">>), Str(<<"2">>)>>)) }

SearchOptsInputs ==
    BaseSearchOpts
        \cup {Spread(base, "custom_fields" :> cf) :
                  base \in BaseSearchOpts, cf \in CustomFieldsArguments}

TaskPlain == ("gid" :> Text("1")) @@ ("name" :> Text("Write report"))
EnumField == [name |-> "Priority", gid |-> "111", type |-> "enum",
              display_value |-> Text("High"), enum_value |-> Obj("gid" :> Text("900"))]
TextField == [name |-> "Team", gid |-> "222", type |-> "text",
              display_value |-> Text("eng"), enum_value |-> Null]
UnsetEnumField == [name |-> "Stage", gid |-> "333", type |-> "enum",
                   display_value |-> Null, enum_value |-> Null]

SearchData ==
    { <<>>,
      <<TaskPlain>>,
      <<Spread(TaskPlain, "custom_fields" :> Arr(<<>>))>>,
      <<Spread(TaskPlain, "custom_fields" :> Null)>>,
      <<TaskPlain, Spread(TaskPlain, "custom_fields" :> Arr(<<EnumField, TextField, UnsetEnumField>>))>> }

\* Failures the vendor SDK may throw.
VendorErrors ==
    { [JsError("Error", Msg("Too Many Requests", {})) EXCEPT !.status = 429],
      [JsError("Error", Msg("Not Found", {})) EXCEPT !.respStatus = 404,
                                                     !.respStatusText = "Not Found"],
      [JsError("Error", Msg("getaddrinfo ENOTFOUND app.asana.com", {}))
           EXCEPT !.code = "ENOTFOUND"],
      [JsError("Error", Msg("Bad Request", {})) EXCEPT
           !.status = 400, !.hasValueErrors = TRUE,
           !.valueErrors = <<[message |-> Msg("workspace: Not a recognized ID", {}),
                              phrase |-> ""]>>],
      JsError("Error", Msg("timeout of 30000ms exceeded", {"timeout"})),
      [JsError("Error", Msg("Request failed with status code 400", {"400"}))
           EXCEPT !.status = 400] }

SearchInit ==
    /\ IdleExceptSearch
    /\ sPc = "call"
    /\ sArgs \in {[workspace |-> Str(<<"9", "9", "9">>), opts |-> o] : o \in SearchOptsInputs}
    /\ sReq = <<>>
    /\ sRes = [kind |-> "none"]

\* searchTasks runs up to its request to the SDK (or throws before it).
SearchCall ==
    /\ sPc = "call"
    /\ LET r == SearchTasksRequest(sArgs.workspace, sArgs.opts) IN
       IF r.threw
       THEN /\ sRes' = [kind |-> "throw", error |-> r.error]
            /\ sPc' = "done"
            /\ UNCHANGED sReq
       ELSE /\ sReq' = Append(sReq, r.request)
            /\ sPc' = "awaiting"
            /\ UNCHANGED sRes
    /\ UNCHANGED <<sArgs, exceptSearch>>

\* The vendor answers; the response is reshaped and returned.
SearchVendorReplies ==
    /\ sPc = "awaiting"
    /\ \E data \in SearchData : sRes' = [kind |-> "ok", data |-> TransformData(data)]
    /\ sPc' = "done"
    /\ UNCHANGED <<sArgs, sReq, exceptSearch>>

\* The vendor request fails; searchTasks lets the error through.
SearchVendorFails ==
    /\ sPc = "awaiting"
    /\ \E e \in VendorErrors : sRes' = [kind |-> "throw", error |-> e]
    /\ sPc' = "done"
    /\ UNCHANGED <<sArgs, sReq, exceptSearch>>

NextSearch == SearchCall \/ SearchVendorReplies \/ SearchVendorFails

SpecSearch == SearchInit /\ [][NextSearch]_vars

(***************************************************************************)
(* Claims on the custom-field expansion of searchTasks (SpecSearch)        *)
(***************************************************************************)
\* The keys the reference rule gives one entry of a custom_fields map.
EntryKeys(id, value) ==
    IF IsObj(value) THEN {"custom_fields." \o id \o "." \o op : op \in DOMAIN value.o}
    ELSE {"custom_fields." \o id \o ".value"}

\* C6: for every custom_fields map handed to searchTasks, the outbound
\* parameters hold, for each entry (fieldId, scalar), the key
\* custom_fields.<fieldId>.value with that scalar and, for each entry
\* (fieldId, {op: v, ...}), one key custom_fields.<fieldId>.<op> = v per
\* operator; no other key is added, the other options are passed on as they
\* are, and no custom_fields key remains.  {"111": "high"} alone gives
\* exactly {"custom_fields.111.value": "high"} and {"111": {"contains":
\* "eng"}} exactly {"custom_fields.111.contains": "eng"}.
C6_CustomFieldExpansion ==
    (sPc # "call" /\ IsObj(Get(sArgs.opts, "custom_fields"))) =>
        LET cf == sArgs.opts["custom_fields"].o
            others == Rest(sArgs.opts, {"custom_fields"})
            expanded == UNION {EntryKeys(id, cf[id]) : id \in DOMAIN cf}
        IN /\ Len(sReq) = 1
           /\ sReq[1].target = sArgs.workspace
           /\ \A id \in DOMAIN cf :
                  IF IsObj(cf[id])
                  THEN \A op \in DOMAIN cf[id].o :
                           sReq[1].params["custom_fields." \o id \o "." \o op] = cf[id].o[op]
                  ELSE sReq[1].params["custom_fields." \o id \o ".value"] = cf[id]
           /\ DOMAIN sReq[1].params = (DOMAIN others) \cup expanded
           /\ \A k \in (DOMAIN others) \ expanded : sReq[1].params[k] = others[k]
           /\ "custom_fields" \notin DOMAIN sReq[1].params
           /\ sArgs.opts = ("custom_fields" :> Obj("111" :> Str(High)))
                  => sReq[1].params = ("custom_fields.111.value" :> Str(High))
           /\ sArgs.opts = ("custom_fields" :> Obj("111" :> Obj("contains" :> Str(Eng))))
                  => sReq[1].params = ("custom_fields.111.contains" :> Str(Eng))

C6_Witness ==
    /\ sPc = "awaiting"
    /\ sArgs.opts = ("text" :> Str(<<"x">>))
                        @@ ("custom_fields" :>
                                Obj(("111" :> Str(High))
                                    @@ ("222" :> Obj(("is_set" :> Bool(TRUE))
                                                     @@ ("value" :> Str(High))))))
    /\ sReq[1].params = ("text" :> Str(<<"x">>))
                            @@ ("custom_fields.111.value" :> Str(High))
                            @@ ("custom_fields.222.is_set" :> Bool(TRUE))
                            @@ ("custom_fields.222.value" :> Str(High))

(***************************************************************************)
(* zod (^3.25), as far as the schemas of schemas/base.ts,                  *)
(* schemas/tool-schemas.ts and schemas/search-schemas.ts use it.           *)
(*                                                                         *)
(* A parse result has the status zod keeps ("valid", "dirty" for a value   *)
(* of the right type that fails a check, "aborted" for a value of the      *)
(* wrong type), the output value and the issues in the order zod reports   *)
(* them.  safeParse succeeds exactly when the status is "valid".           *)
(***************************************************************************)
\* The characters of an object key.
Chars(key) == [i \in 1..Len(key) |-> SubSeq(key, i, i)]

LowerCaseLetters == <<"a", "b", "c", "d", "e", "f", "g", "h", "i", "j", "k", "l", "m",
                      "n", "o", "p", "q", "r", "s", "t", "u", "v", "w", "x", "y", "z">>
UpperCaseLetters == <<"A", "B", "C", "D", "E", "F", "G", "H", "I", "J", "K", "L", "M",
                      "N", "O", "P", "Q", "R", "S", "T", "U", "V", "W", "X", "Y", "Z">>
LetterIndexes == 1..Len(LowerCaseLetters)

\* val.toLowerCase()
ToLowerCase(chars) ==
    [i \in 1..Len(chars) |->
        IF \E k \in LetterIndexes : UpperCaseLetters[k] = chars[i]
        THEN LowerCaseLetters[CHOOSE k \in LetterIndexes : UpperCaseLetters[k] = chars[i]]
        ELSE chars[i]]

\* A pattern of fixed length: "d" stands for \d, any other character for itself.
MatchesTemplate(chars, template) ==
    /\ Len(chars) = Len(template)
    /\ \A i \in 1..Len(template) :
           IF template[i] = "d" THEN chars[i] \in Digits ELSE chars[i] = template[i]

\* /^\d{4}-\d{2}-\d{2}$/
IsDate(chars) == MatchesTemplate(chars, Chars("dddd-dd-dd"))

\* /^\d{4}-\d{2}-\d{2}T\d{2}:\d{2}:\d{2}(?:\.\d+)?(?:Z|[+-]\d{2}:\d{2})?$/
IsDateTime(chars) ==
    LET stem == Len("dddd-dd-ddTdd:dd:dd") IN
    /\ Len(chars) >= stem
    /\ MatchesTemplate(SubSeq(chars, 1, stem), Chars("dddd-dd-ddTdd:dd:dd"))
    /\ \E cut \in stem..Len(chars) :
           LET fraction == SubSeq(chars, stem + 1, cut)
               zone == SubSeq(chars, cut + 1, Len(chars))
           IN /\ \/ fraction = <<>>
                 \/ Len(fraction) >= 2 /\ Head(fraction) = "." /\ IsGid(Tail(fraction))
              /\ \/ zone = <<>>
                 \/ zone = <<"Z">>
                 \/ MatchesTemplate(zone, Chars("+dd:dd"))
                 \/ MatchesTemplate(zone, Chars("-dd:dd"))

\* str.split(sep) for a separator of one character
RECURSIVE SplitOn(_, _, _, _)
SplitOn(str, sep, i, cur) ==
    IF i > Len(str) THEN <<cur>>
    ELSE IF str[i] = sep THEN <<cur>> \o SplitOn(str, sep, i + 1, <<>>)
    ELSE SplitOn(str, sep, i + 1, Append(cur, str[i]))

Range(seq) == {seq[i] : i \in 1..Len(seq)}

\* [a-zA-Z_][a-zA-Z0-9_]*
IsFieldName(chars) ==
    LET first == Range(LowerCaseLetters) \cup Range(UpperCaseLetters) \cup {"_"} IN
    /\ chars # <<>>
    /\ chars[1] \in first
    /\ \A i \in 2..Len(chars) : chars[i] \in first \cup Digits

\* The pattern of OptFieldsSchema: comma-separated paths of field names
\* joined by dots.
IsOptFields(chars) ==
    LET paths == SplitOn(chars, ",", 1, <<>>) IN
    \A i \in 1..Len(paths) :
        LET names == SplitOn(paths[i], ".", 1, <<>>) IN
        \A j \in 1..Len(names) : IsFieldName(names[j])

\* zod's name for the type of a value (getParsedType)
TypeName(v) ==
    IF IsUndefined(v) THEN "undefined"
    ELSE IF IsNull(v) THEN "null"
    ELSE IF IsStr(v) THEN "string"
    ELSE IF IsBool(v) THEN "boolean"
    ELSE IF IsNumber(v) THEN "number"
    ELSE IF IsArr(v) THEN "array"
    ELSE IF IsObj(v) THEN "object"
    ELSE "nan"

\* An issue: its path joined by '.', its message and, for an invalid type or
\* an invalid enum value, what was received (<<>> when the issue has none).
Received(path, message, received) ==
    [path |-> path, message |-> message, received |-> received]
Issue(path, message) == Received(path, message, <<>>)

ZValid(v) == [status |-> "valid", data |-> v, issues |-> <<>>]
ZDirty(v, issues) == [status |-> "dirty", data |-> v, issues |-> issues]
ZAborted(issues) == [status |-> "aborted", data |-> Undefined, issues |-> issues]
ZChecked(v, issues) == IF issues = <<>> THEN ZValid(v) ELSE ZDirty(v, issues)

\* invalid_type: "Required" for a missing value
InvalidType(expected, v) ==
    ZAborted(<<Received("", IF IsUndefined(v) THEN "Required"
                            ELSE "Expected " \o expected \o ", received " \o TypeName(v),
                        <<TypeName(v)>>)>>)

\* The issues of a member, reported under the member's key.
AtPath(key, issues) ==
    [i \in 1..Len(issues) |->
        Received(IF issues[i].path = "" THEN key ELSE key \o "." \o issues[i].path,
                 issues[i].message, issues[i].received)]

\* The keys of an object in an order (the model keeps no insertion order).
RECURSIVE KeyOrder(_)
KeyOrder(keys) ==
    IF keys = {} THEN <<>>
    ELSE LET k == CHOOSE x \in keys : TRUE IN <<k>> \o KeyOrder(keys \ {k})

\* 'a' | 'b' | 'c'
RECURSIVE JoinOptions(_)
JoinOptions(options) ==
    IF options = <<>> THEN ""
    ELSE "'" \o Head(options) \o "'"
             \o (IF Len(options) > 1 THEN " | " ELSE "") \o JoinOptions(Tail(options))

\* The schemas.  A schema is a record; its kind selects the rule of ZParse.
ZString == [kind |-> "string"]
ZNonEmpty(message) == [kind |-> "min1", message |-> message]
ZRegex(pattern, message) == [kind |-> "regex", pattern |-> pattern, message |-> message]
ZEnum(options) == [kind |-> "enum", options |-> options]
ZOptional(schema) == [kind |-> "optional", inner |-> schema]
ZNullable(schema) == [kind |-> "nullable", inner |-> schema]
\* CommaListSchema.pipe(z.array(item))
ZCommaList(item) == [kind |-> "commalist", item |-> item]
ZArray(item, min, message) == [kind |-> "array", item |-> item, min |-> min,
                               message |-> message, bounded |-> FALSE, max |-> 0,
                               maxMessage |-> ""]
\* z.array(item).min(min, message).max(max, maxMessage)
ZArrayMax(item, min, message, max, maxMessage) ==
    [ZArray(item, min, message) EXCEPT !.bounded = TRUE, !.max = max,
                                       !.maxMessage = maxMessage]
ZBoolean == [kind |-> "boolean"]
ZAny == [kind |-> "any"]
\* z.union([z.string(), z.number(), z.boolean()])
ZScalar == [kind |-> "scalar"]
\* z.record(value)
ZRecord(value) == [kind |-> "record", value |-> value]
\* z.record(key, z.record(operation, z.union([string, number, boolean])))
ZFieldRecord(key, operations) == [kind |-> "fieldrecord", key |-> key,
                                  operations |-> operations]
ZField(key, schema) == [key |-> key, schema |-> schema]
ZObject(shape) == [kind |-> "object", shape |-> shape, refine |-> "", message |-> ""]
ZRefine(schema, refine, message) == [schema EXCEPT !.refine = refine, !.message = message]

Matches(pattern, chars) ==
    CASE pattern = "gid" -> IsGid(chars)
      [] pattern = "date" -> IsDate(chars)
      [] pattern = "datetime" -> IsDateTime(chars)
      [] pattern = "optfields" -> IsOptFields(chars)
      [] pattern = "userOrMe" -> chars = <<"m", "e">> \/ IsGid(chars)

\* The refinements of the tool schemas.
RefineHolds(refine, data) ==
    CASE refine = "insertExclusive" ->
             ~(Truthy(Get(data, "insert_after")) /\ Truthy(Get(data, "insert_before")))
      [] refine = "textOrHtmlText" ->
             Truthy(Get(data, "text")) \/ Truthy(Get(data, "html_text"))

\* The checks of LimitSchema = z.number().int().min(1).max(100), in order.
LimitIssues(v) ==
    (IF IsInteger(v) THEN <<>> ELSE <<Issue("", "Expected integer, received float")>>)
    \o (IF v.half >= 2 * LimitMin THEN <<>>
        ELSE <<Issue("", "Number must be greater than or equal to " \o ToString(LimitMin))>>)
    \o (IF v.half <= 2 * LimitMax THEN <<>>
        ELSE <<Issue("", "Number must be less than or equal to " \o ToString(LimitMax))>>)

\* z.union([z.number(), z.string().transform(Number)]).pipe(LimitSchema)
ZLimit == [kind |-> "limit"]
\* BooleanOrStringSchema
BooleanOrStringSchema == [kind |-> "boolstr"]

RECURSIVE ZParse(_, _)
RECURSIVE ZParseShape(_, _, _)
RECURSIVE ZParseItems(_, _, _)
RECURSIVE ZParseOperations(_, _, _)
RECURSIVE ZParseFieldRecord(_, _, _)

\* The members of a z.object, in the order of the shape; keys of the input
\* that the shape does not name are stripped.
ZParseShape(shape, input, acc) ==
    IF shape = <<>> THEN acc
    ELSE LET field == Head(shape)
             r == ZParse(field.schema, Get(input, field.key))
             data == IF field.key \in DOMAIN input \/ ~IsUndefined(r.data)
                     THEN Spread(acc.data, field.key :> r.data) ELSE acc.data
             status == IF acc.status = "aborted" \/ r.status = "aborted" THEN "aborted"
                       ELSE IF acc.status = "dirty" \/ r.status = "dirty" THEN "dirty"
                       ELSE "valid"
         IN ZParseShape(Tail(shape), input,
                [status |-> status, data |-> data,
                 issues |-> acc.issues \o AtPath(field.key, r.issues)])

\* The elements of an array, i counting from 1 (paths count from 0)
ZParseItems(item, items, i) ==
    IF i > Len(items) THEN ZValid(<<>>)
    ELSE LET r == ZParse(item, items[i])
             rest == ZParseItems(item, items, i + 1)
         IN [status |-> IF r.status = "aborted" \/ rest.status = "aborted" THEN "aborted"
                        ELSE IF r.status = "dirty" \/ rest.status = "dirty" THEN "dirty"
                        ELSE "valid",
             data |-> <<r.data>> \o rest.data,
             issues |-> AtPath(ToString(i - 1), r.issues) \o rest.issues]

\* The inner record of CustomFieldsSchema: operation -> string | number | boolean
ZParseOperations(operations, input, keys) ==
    IF keys = <<>> THEN ZValid(EmptyMap)
    ELSE LET k == Head(keys)
             rest == ZParseOperations(operations, input, Tail(keys))
             keyIssues ==
                 IF k \in Range(operations) THEN <<>>
                 ELSE <<Received(k, "Invalid enum value. Expected "
                                        \o JoinOptions(operations)
                                        \o ", received '" \o k \o "'", <<k>>)>>
             valueIssues ==
                 IF IsStr(input[k]) \/ IsNumber(input[k]) \/ IsBool(input[k]) THEN <<>>
                 ELSE <<Issue(k, "Invalid input")>>
         IN IF keyIssues = <<>> /\ valueIssues = <<>> /\ rest.status = "valid"
            THEN ZValid(Spread(k :> input[k], rest.data))
            ELSE ZAborted(keyIssues \o valueIssues \o rest.issues)

\* The outer record of CustomFieldsSchema: field GID -> operations
ZParseFieldRecord(schema, input, keys) ==
    IF keys = <<>> THEN ZValid(EmptyMap)
    ELSE LET k == Head(keys)
             rest == ZParseFieldRecord(schema, input, Tail(keys))
             keyResult == ZParse(schema.key, Str(Chars(k)))
             valueResult ==
                 IF IsObj(input[k])
                 THEN ZParseOperations(schema.operations, input[k].o,
                                       KeyOrder(DOMAIN input[k].o))
                 ELSE InvalidType("object", input[k])
             issues == AtPath(k, keyResult.issues) \o AtPath(k, valueResult.issues)
                           \o rest.issues
         IN IF valueResult.status = "aborted" \/ rest.status = "aborted"
            THEN ZAborted(issues)
            ELSE ZChecked(Spread(k :> Obj(valueResult.data), rest.data), issues)

\* schema.safeParse(v)
ZParse(schema, v) ==
    CASE schema.kind = "optional" ->
             IF IsUndefined(v) THEN ZValid(Undefined) ELSE ZParse(schema.inner, v)
      [] schema.kind = "nullable" ->
             IF IsNull(v) THEN ZValid(Null) ELSE ZParse(schema.inner, v)
      [] schema.kind = "string" ->
             IF IsStr(v) THEN ZValid(v) ELSE InvalidType("string", v)
      [] schema.kind = "min1" ->
             IF ~IsStr(v) THEN InvalidType("string", v)
             ELSE ZChecked(v, IF v.s # <<>> THEN <<>> ELSE <<Issue("", schema.message)>>)
      [] schema.kind = "regex" ->
             IF ~IsStr(v) THEN InvalidType("string", v)
             ELSE ZChecked(v, IF Matches(schema.pattern, v.s) THEN <<>>
                              ELSE <<Issue("", schema.message)>>)
      [] schema.kind = "enum" ->
             IF ~IsStr(v) THEN InvalidType(JoinOptions(schema.options), v)
             ELSE IF Join(v.s) \in Range(schema.options) THEN ZValid(v)
             ELSE ZAborted(<<Received("", "Invalid enum value. Expected "
                                              \o JoinOptions(schema.options)
                                              \o ", received '" \o Join(v.s) \o "'",
                                          <<Join(v.s)>>)>>)
      [] schema.kind = "boolstr" ->
             IF IsBool(v) THEN ZValid(v)
             ELSE IF IsStr(v) THEN ZValid(Bool(ToLowerCase(v.s) = <<"t", "r", "u", "e">>))
             ELSE ZAborted(<<Issue("", "Invalid input")>>)
      [] schema.kind = "limit" ->
             IF ~(IsNumber(v) \/ IsStr(v)) THEN ZAborted(<<Issue("", "Invalid input")>>)
             ELSE LET n == IF IsStr(v) THEN ToNumber(v.s) ELSE v IN
                  IF n = NaN THEN InvalidType("number", n)
                  ELSE ZChecked(n, LimitIssues(n))
      [] schema.kind = "commalist" ->
             IF ~IsStr(v) THEN InvalidType("string", v)
             ELSE LET items == CommaListSchema(v.s)
                      r == ZParseItems(schema.item, [i \in 1..Len(items) |-> Str(items[i])], 1)
                  IN [r EXCEPT !.data = Arr(r.data)]
      [] schema.kind = "array" ->
             IF ~IsArr(v) THEN InvalidType("array", v)
             ELSE LET r == ZParseItems(schema.item, v.a, 1)
                      short == (IF Len(v.a) >= schema.min THEN <<>>
                                ELSE <<Issue("", schema.message)>>)
                               \o (IF ~schema.bounded \/ Len(v.a) <= schema.max THEN <<>>
                                   ELSE <<Issue("", schema.maxMessage)>>)
                  IN IF r.status = "aborted" THEN ZAborted(short \o r.issues)
                     ELSE ZChecked(Arr(r.data), short \o r.issues)
      [] schema.kind = "boolean" ->
             IF IsBool(v) THEN ZValid(v) ELSE InvalidType("boolean", v)
      [] schema.kind = "any" -> ZValid(v)
      [] schema.kind = "scalar" ->
             IF IsStr(v) \/ IsNumber(v) \/ IsBool(v) THEN ZValid(v)
             ELSE ZAborted(<<Issue("", "Invalid input")>>)
      [] schema.kind = "record" ->
             IF ~IsObj(v) THEN InvalidType("object", v)
             ELSE LET keys == KeyOrder(DOMAIN v.o)
                      r == ZParseShape([i \in 1..Len(keys) |-> ZField(keys[i], schema.value)],
                                       v.o, ZValid(EmptyMap))
                  IN IF r.status = "aborted" THEN ZAborted(r.issues)
                     ELSE ZChecked(Obj(r.data), r.issues)
      [] schema.kind = "fieldrecord" ->
             IF ~IsObj(v) THEN InvalidType("object", v)
             ELSE ZParseFieldRecord(schema, v.o, KeyOrder(DOMAIN v.o))
      [] schema.kind = "object" ->
             IF ~IsObj(v) THEN InvalidType("object", v)
             ELSE LET \* an optional member the input lacks parses to nothing
                      present(field) == \/ field.key \in DOMAIN v.o
                                        \/ field.schema.kind # "optional"
                      r == ZParseShape(SelectSeq(schema.shape, present), v.o,
                                       ZValid(EmptyMap))
                      refined ==
                          IF r.status = "aborted" \/ schema.refine = ""
                             \/ RefineHolds(schema.refine, r.data)
                          THEN <<>> ELSE <<Issue("", schema.message)>>
                  IN IF r.status = "aborted" THEN ZAborted(r.issues)
                     ELSE ZChecked(Obj(r.data), r.issues \o refined)

(***************************************************************************)
(* The schemas (schemas/base.ts, schemas/search-schemas.ts,                *)
(* schemas/tool-schemas.ts)                                                *)
(***************************************************************************)
GidSchema == ZRegex("gid", "Must be a valid Asana GID (numeric string)")
DateSchema == ZRegex("date", "Must be ISO 8601 date format (YYYY-MM-DD)")
DateTimeSchema ==
    ZRegex("datetime",
           "Must be ISO 8601 datetime format (YYYY-MM-DDTHH:MM:SS[.sss][Z|±HH:MM])")
OptFieldsSchema ==
    ZOptional(ZRegex("optfields",
                     "Must be comma-separated field names (supports nested fields with dots)"))
SortBySchema == ZEnum(<<"due_date", "created_at", "completed_at", "likes", "modified_at">>)
ResourceSubtypeSchema == ZEnum(<<"default_task", "milestone", "section", "approval">>)
CustomFieldOperationSchema ==
    <<"is_set", "value", "contains", "starts_with", "ends_with", "less_than", "greater_than">>
CustomFieldsSchema == ZOptional(ZFieldRecord(GidSchema, CustomFieldOperationSchema))
ProjectStatusColorSchema == ZEnum(<<"green", "yellow", "red">>)
userIdListOrMe == ZCommaList(ZRegex("userOrMe", "Must be \"me\" or a valid Asana GID"))
GidList == ZCommaList(GidSchema)

\* The optional members of one schema for a list of keys
OptionalFields(keys, schema) == [i \in 1..Len(keys) |-> ZField(keys[i], ZOptional(schema))]

SearchTasksSchema ==
    ZObject(
        <<ZField("workspace", GidSchema), ZField("text", ZOptional(ZString))>>
        \o OptionalFields(<<"projects.any", "projects.all", "projects.not",
                            "sections.any", "sections.all", "sections.not">>, GidList)
        \o <<ZField("assignee.any", ZOptional(userIdListOrMe))>>
        \o OptionalFields(<<"assignee.not", "created_by.any", "created_by.not",
                            "assigned_by.any", "assigned_by.not", "followers.any",
                            "followers.not", "liked_by.any", "liked_by.not",
                            "commented_on_by.any", "commented_on_by.not">>, GidList)
        \o OptionalFields(<<"due_on", "due_on.after", "due_on.before">>, DateSchema)
        \o OptionalFields(<<"due_at.after", "due_at.before">>, DateTimeSchema)
        \o OptionalFields(<<"start_on", "start_on.after", "start_on.before">>, DateSchema)
        \o OptionalFields(<<"created_at.after", "created_at.before">>, DateTimeSchema)
        \o OptionalFields(<<"created_on", "created_on.after", "created_on.before">>, DateSchema)
        \o OptionalFields(<<"modified_at.after", "modified_at.before">>, DateTimeSchema)
        \o OptionalFields(<<"modified_on", "modified_on.after", "modified_on.before">>,
                          DateSchema)
        \o OptionalFields(<<"completed_at.after", "completed_at.before">>, DateTimeSchema)
        \o OptionalFields(<<"completed_on", "completed_on.after", "completed_on.before">>,
                          DateSchema)
        \o OptionalFields(<<"completed", "is_subtask", "has_attachment", "is_blocked",
                            "is_blocking">>, BooleanOrStringSchema)
        \o OptionalFields(<<"tags.any", "tags.all", "tags.not", "teams.any",
                            "portfolios.any">>, GidList)
        \o <<ZField("resource_subtype", ZOptional(ResourceSubtypeSchema)),
             ZField("custom_fields", CustomFieldsSchema),
             ZField("sort_by", ZOptional(SortBySchema)),
             ZField("sort_ascending", ZOptional(BooleanOrStringSchema)),
             ZField("limit", ZOptional(ZLimit)),
             ZField("offset", ZOptional(ZString)),
             ZField("opt_fields", OptFieldsSchema)>>)

\* The schema of a tool that takes one identifier and opt_fields
IdAndOptFields(key) == ZObject(<<ZField(key, GidSchema), ZField("opt_fields", OptFieldsSchema)>>)

\* ... and the pagination members
IdAndPage(key) ==
    ZObject(<<ZField(key, GidSchema), ZField("limit", ZOptional(ZLimit)),
              ZField("offset", ZOptional(ZString)), ZField("opt_fields", OptFieldsSchema)>>)

GetTaskSchema == IdAndOptFields("task_id")
GetTaskStoriesSchema == IdAndOptFields("task_id")
GetProjectSchema == IdAndOptFields("project_id")
GetProjectTaskCountsSchema == IdAndOptFields("project_id")
GetProjectSectionsSchema == IdAndOptFields("project_id")
GetProjectStatusSchema == IdAndOptFields("project_status_gid")
GetProjectStatusesForProjectSchema == IdAndPage("project_gid")
CreateProjectStatusSchema ==
    ZObject(<<ZField("project_gid", GidSchema),
              ZField("text", ZNonEmpty("Status text cannot be empty")),
              ZField("color", ZOptional(ProjectStatusColorSchema)),
              ZField("title", ZOptional(ZString)),
              ZField("html_text", ZOptional(ZString)),
              ZField("opt_fields", OptFieldsSchema)>>)
DeleteProjectStatusSchema == ZObject(<<ZField("project_status_gid", GidSchema)>>)
SetParentForTaskSchema ==
    ZObject(<<ZField("task_id", GidSchema),
              ZField("data",
                     ZRefine(ZObject(<<ZField("parent", ZNullable(GidSchema)),
                                       ZField("insert_after", ZOptional(GidSchema)),
                                       ZField("insert_before", ZOptional(GidSchema))>>),
                             "insertExclusive",
                             "Cannot specify both insert_after and insert_before")),
              ZField("opts", ZOptional(ZObject(<<ZField("opt_fields", OptFieldsSchema)>>)))>>)
GetTasksForTagSchema ==
    ZObject(<<ZField("tag_gid", GidSchema), ZField("opt_fields", OptFieldsSchema),
              ZField("opt_pretty", ZOptional(BooleanOrStringSchema)),
              ZField("limit", ZOptional(ZLimit)), ZField("offset", ZOptional(ZString))>>)
GetTagsForWorkspaceSchema == IdAndPage("workspace_gid")

\* The bulk operations.  BatchLimit is the most actions of one batch request.
BatchLimit == 10
userIdOrMe == ZRegex("userOrMe", "Must be \"me\" or a valid Asana GID")
TaskIdsSchema ==
    ZArrayMax(GidSchema, 1, "At least one task ID required",
              BatchLimit, "Maximum of 10 tasks per batch request (Asana API limitation)")
UpdateMultipleTasksSchema ==
    ZObject(<<ZField("task_ids", TaskIdsSchema),
              ZField("updates",
                     ZObject(<<ZField("name", ZOptional(ZString)),
                               ZField("notes", ZOptional(ZString)),
                               ZField("html_notes", ZOptional(ZString)),
                               ZField("completed", ZOptional(BooleanOrStringSchema)),
                               ZField("assignee", ZOptional(userIdOrMe)),
                               ZField("due_on", ZOptional(DateSchema)),
                               ZField("resource_subtype", ZOptional(ResourceSubtypeSchema)),
                               ZField("custom_fields", ZOptional(ZRecord(ZScalar)))>>)),
              ZField("opt_fields", OptFieldsSchema)>>)
ExecuteBatchSchema ==
    ZObject(<<ZField("actions",
                     ZArrayMax(ZObject(<<ZField("method",
                                                ZEnum(<<"GET", "POST", "PUT", "DELETE">>)),
                                         ZField("relative_path",
                                                ZNonEmpty("Relative path cannot be empty")),
                                         ZField("data", ZOptional(ZRecord(ZAny))),
                                         ZField("headers", ZOptional(ZRecord(ZString)))>>),
                               1, "At least one action required", BatchLimit,
                               "Maximum of 10 actions per batch request (Asana API limitation)")),
              ZField("opt_fields", OptFieldsSchema)>>)
CreateMultipleTasksSchema ==
    ZObject(<<ZField("project_id", GidSchema),
              ZField("tasks",
                     ZArrayMax(ZObject(<<ZField("name", ZNonEmpty("Task name cannot be empty")),
                                         ZField("notes", ZOptional(ZString)),
                                         ZField("html_notes", ZOptional(ZString)),
                                         ZField("assignee", ZOptional(userIdOrMe)),
                                         ZField("due_on", ZOptional(DateSchema)),
                                         ZField("followers",
                                                ZOptional(ZArray(GidSchema, 0, ""))),
                                         ZField("parent", ZOptional(GidSchema)),
                                         ZField("resource_subtype",
                                                ZOptional(ResourceSubtypeSchema)),
                                         ZField("custom_fields",
                                                ZOptional(ZRecord(ZScalar)))>>),
                               1, "At least one task required", BatchLimit,
                               "Maximum of 10 tasks per batch request (Asana API limitation)")),
              ZField("opt_fields", OptFieldsSchema)>>)
AssignMultipleTasksSchema ==
    ZObject(<<ZField("assignments",
                     ZArrayMax(ZObject(<<ZField("task_id", GidSchema),
                                         ZField("assignee", userIdOrMe)>>),
                               1, "At least one assignment required", BatchLimit,
                               "Maximum of 10 assignments per batch request (Asana API limitation)")),
              ZField("opt_fields", OptFieldsSchema)>>)
CompleteMultipleTasksSchema ==
    ZObject(<<ZField("task_ids", TaskIdsSchema),
              ZField("completed", ZBoolean),
              ZField("opt_fields", OptFieldsSchema)>>)
\* The schema each bulk case validates with
BulkSchemas ==
    ("asana_update_multiple_tasks" :> UpdateMultipleTasksSchema)
    @@ ("asana_execute_batch" :> ExecuteBatchSchema)
    @@ ("asana_create_multiple_tasks" :> CreateMultipleTasksSchema)
    @@ ("asana_assign_multiple_tasks" :> AssignMultipleTasksSchema)
    @@ ("asana_complete_multiple_tasks" :> CompleteMultipleTasksSchema)
BulkTools == DOMAIN BulkSchemas
BulkSchemaNames ==
    ("asana_update_multiple_tasks" :> "UpdateMultipleTasksSchema")
    @@ ("asana_execute_batch" :> "ExecuteBatchSchema")
    @@ ("asana_create_multiple_tasks" :> "CreateMultipleTasksSchema")
    @@ ("asana_assign_multiple_tasks" :> "AssignMultipleTasksSchema")
    @@ ("asana_complete_multiple_tasks" :> "CompleteMultipleTasksSchema")

(***************************************************************************)
(* The tool handler (handlers/tool-handler.ts)                             *)
(***************************************************************************)
\* The names of all_tools, in order.
all_tools ==
    <<"asana_list_workspaces", "asana_search_projects", "asana_search_tasks",
      "asana_get_task", "asana_create_task", "asana_get_task_stories",
      "asana_update_task", "asana_get_project", "asana_get_project_task_counts",
      "asana_get_project_sections", "asana_create_task_story",
      "asana_add_task_dependencies", "asana_add_task_dependents",
      "asana_create_subtask", "asana_get_multiple_tasks_by_gid",
      "asana_get_project_status", "asana_get_project_statuses",
      "asana_create_project_status", "asana_delete_project_status",
      "asana_set_parent_for_task", "asana_get_tasks_for_tag",
      "asana_get_tags_for_workspace",
      "asana_update_multiple_tasks", "asana_execute_batch",
      "asana_create_multiple_tasks", "asana_assign_multiple_tasks",
      "asana_complete_multiple_tasks",
      "asana_get_portfolios", "asana_get_portfolio", "asana_create_portfolio",
      "asana_update_portfolio", "asana_delete_portfolio", "asana_get_portfolio_items",
      "asana_add_portfolio_items", "asana_remove_portfolio_items",
      "asana_add_portfolio_members", "asana_remove_portfolio_members">>

READ_ONLY_TOOLS ==
    {"asana_list_workspaces", "asana_search_projects", "asana_search_tasks",
     "asana_get_task", "asana_get_task_stories", "asana_get_project",
     "asana_get_project_task_counts", "asana_get_project_status",
     "asana_get_project_statuses", "asana_get_project_sections",
     "asana_get_multiple_tasks_by_gid", "asana_get_tasks_for_tag",
     "asana_get_tags_for_workspace",
     "asana_get_portfolios", "asana_get_portfolio", "asana_get_portfolio_items"}

\* The case labels of the switch.
SwitchCases ==
    {"asana_list_workspaces", "asana_search_projects", "asana_search_tasks",
     "asana_get_task", "asana_create_task", "asana_get_task_stories",
     "asana_update_task", "asana_get_project", "asana_get_project_task_counts",
     "asana_get_project_status", "asana_get_project_statuses",
     "asana_create_project_status", "asana_delete_project_status",
     "asana_get_project_sections", "asana_create_task_story",
     "asana_add_task_dependencies", "asana_add_task_dependents",
     "asana_create_subtask", "asana_get_multiple_tasks_by_gid",
     "asana_set_parent_for_task", "asana_get_tasks_for_tag",
     "asana_get_tags_for_workspace",
     "asana_update_multiple_tasks", "asana_execute_batch",
     "asana_create_multiple_tasks", "asana_assign_multiple_tasks",
     "asana_complete_multiple_tasks",
     "asana_get_portfolios", "asana_get_portfolio", "asana_create_portfolio",
     "asana_update_portfolio", "asana_delete_portfolio"}

\* Names a caller may send that no tool has; the second one holds the word
\* the error classifier searches messages for.
UnknownToolNames == {"asana_unknown_tool", "asana_timeout_probe"}

ToolNames == Range(all_tools) \cup UnknownToolNames

NameWords(name) == IF name = "asana_timeout_probe" THEN {"timeout"} ELSE {}

NoArgumentsError == JsError("Error", Msg("No arguments provided", {}))

ReadOnlyError(name) ==
    JsError("Error", Msg("Tool " \o name \o " is not available in read-only mode",
                         NameWords(name)))

UnknownToolError(name) == JsError("Error", Msg("Unknown tool: " \o name, NameWords(name)))

\* new ValidationError(message, zodError)
ValidationError(message, issues) ==
    [issues |-> issues] @@ JsError("ValidationError", Msg(message, {}))

RECURSIVE JoinWith(_, _)
JoinWith(texts, sep) ==
    IF texts = <<>> THEN ""
    ELSE IF Len(texts) = 1 THEN texts[1]
    ELSE texts[1] \o sep \o JoinWith(Tail(texts), sep)

\* ValidationError.getUserMessage()
GetUserMessage(issues) ==
    LET fieldName(i) == IF issues[i].path # "" THEN issues[i].path ELSE "parameter" IN
    IF Len(issues) = 1
    THEN "Invalid " \o fieldName(1) \o ": " \o issues[1].message
    ELSE "Validation failed for fields: "
             \o JoinWith([i \in 1..Len(issues) |-> fieldName(i)], ", ")
             \o ". Please check the parameter format."

\* ValidationError.toMcpError()
ValidationToMcpError(error) ==
    McpError("InvalidParams", Msg(GetUserMessage(error.issues), {}), "", 0)

\* ErrorHandlers.validateParams(schema, params, context)
ValidateParams(schema, params, context) ==
    LET r == ZParse(schema, params) IN
    [threw |-> r.status # "valid",
     error |-> ValidationError("Validation failed for " \o context, r.issues),
     data |-> r.data]

\* The message validateSearchTasksParams builds from the issues
SearchTasksMessage(issues) ==
    Msg("Search tasks parameter validation failed:\n"
            \o JoinWith([i \in 1..Len(issues) |->
                            "  - " \o issues[i].path \o ": " \o issues[i].message
                                \o (IF issues[i].received = <<>> THEN ""
                                    ELSE " (received: " \o issues[i].received[1] \o ")")],
                        "\n"),
        {})

\* validateSearchTasksParams(params)
ValidateSearchTasksParams(params) ==
    LET r == ZParse(SearchTasksSchema, params) IN
    [threw |-> r.status # "valid",
     error |-> JsError("Error", SearchTasksMessage(r.issues)),
     data |-> r.data]

\* ErrorHandlers.safeOperation: what the caller gets for a thrown error
SafeOperation(error, context) ==
    IF error.cls = "ValidationError" THEN ValidationToMcpError(error)
    ELSE SafeOperationCatch(error, context)

\* A request that sends a body ({ data }) besides or instead of parameters
VendorBodyRequest(api, body, target, params) ==
    [api |-> api, target |-> target, params |-> params, body |-> body]

\* The operation runs to its first await on the vendor SDK, or throws before.
Thrown(error, validated) ==
    [threw |-> TRUE, error |-> error, validated |-> validated, requests |-> <<>>]
Calls(request, validated) ==
    [threw |-> FALSE, error |-> JsError("", Msg("", {})), validated |-> validated,
     requests |-> <<request>>]
\* Several requests issued before the first await returns (Promise.all)
CallsAll(requests, validated) ==
    [threw |-> FALSE, error |-> JsError("", Msg("", {})), validated |-> validated,
     requests |-> requests]

\* The cases that destructure one identifier and pass the rest as options,
\* with no validation; keep says whether the client passes the options on
\* always or only when opt_fields is set.
IdCases ==
    ("asana_get_task_stories" :>
         [key |-> "task_id", api |-> "stories.getStoriesForTask", keep |-> "always"])
    @@ ("asana_get_project" :>
         [key |-> "project_id", api |-> "projects.getProject", keep |-> "optFields"])
    @@ ("asana_get_project_task_counts" :>
         [key |-> "project_id", api |-> "projects.getTaskCountsForProject",
          keep |-> "optFields"])
    @@ ("asana_get_project_status" :>
         [key |-> "project_status_gid", api |-> "projectStatuses.getProjectStatus",
          keep |-> "always"])
    @@ ("asana_get_project_statuses" :>
         [key |-> "project_gid", api |-> "projectStatuses.getProjectStatusesForProject",
          keep |-> "always"])
    @@ ("asana_get_project_sections" :>
         [key |-> "project_id", api |-> "sections.getSectionsForProject",
          keep |-> "optFields"])
    @@ ("asana_get_tasks_for_tag" :>
         [key |-> "tag_gid", api |-> "tasks.getTasksForTag", keep |-> "always"])
    @@ ("asana_get_tags_for_workspace" :>
         [key |-> "workspace_gid", api |-> "tags.getTagsForWorkspace", keep |-> "always"])

\* The cases of the switch that the model follows into the client.
ModelledCases ==
    {"asana_search_tasks", "asana_get_task", "asana_create_project_status",
     "asana_delete_project_status", "asana_set_parent_for_task", "asana_update_task",
     "asana_get_multiple_tasks_by_gid"}
        \cup DOMAIN IdCases \cup BulkTools

\* if (typeof v == "string") v = JSON.parse(v)
ParseIfString(v) ==
    IF IsStr(v) THEN JsonParse(v.s) ELSE [ok |-> TRUE, val |-> v, next |-> 0]

JsonSyntaxError == JsError("SyntaxError", Msg("Unexpected token in JSON", {}))

\* case "asana_search_tasks"
SearchTasksCase(args) ==
    LET called(c) == IF c.threw THEN Thrown(c.error, <<"SearchTasksSchema">>)
                     ELSE Calls(c.request, <<"SearchTasksSchema">>)
        validated(v) ==
            IF v.threw THEN Thrown(v.error, <<"SearchTasksSchema">>)
            ELSE CHOOSE out \in {called(c) : c \in {SearchTasksRequest(
                                     v.data.o["workspace"], Rest(v.data.o, {"workspace"}))}}
                     : TRUE
    IN CHOOSE out \in {validated(v) : v \in {ValidateSearchTasksParams(Obj(args))}} : TRUE

\* case "asana_get_task"
GetTaskCase(args) ==
    LET validated(v) ==
            IF v.threw THEN Thrown(v.error, <<"GetTaskSchema">>)
            ELSE Calls(VendorRequest("tasks.getTask", v.data.o["task_id"],
                                     Rest(v.data.o, {"task_id"})),
                       <<"GetTaskSchema">>)
    IN CHOOSE out \in {validated(v) :
                           v \in {ValidateParams(GetTaskSchema, Obj(args), "asana_get_task")}}
           : TRUE

\* v || undefined
OrUndefined(v) == IF Truthy(v) THEN v ELSE Undefined

\* case "asana_update_task", up to the request of client.updateTask
UpdateTaskCase(args) ==
    LET taskData == Rest(args, {"task_id"})
        data == Spread(taskData,
                       ("resource_subtype" :> OrUndefined(Get(taskData, "resource_subtype")))
                       @@ ("custom_fields" :> OrUndefined(Get(taskData, "custom_fields"))))
    IN Calls(VendorBodyRequest("tasks.updateTask", Obj("data" :> Obj(data)),
                               Get(args, "task_id"), EmptyMap),
             <<>>)

\* The most tasks one invocation fetches by id
MultiFetchLimit == 25

\* A buggy variant: every id is fetched, however many there are.
GetMultipleTasksByGidUncapped(taskIds, opts) ==
    CallsAll([i \in 1..Len(taskIds) |-> VendorRequest("tasks.getTask", taskIds[i], opts)],
             <<>>)

\* client.getMultipleTasksByGid(taskIds, opts), up to the requests that
\* taskIds.map(taskId => this.getTask(taskId, opts)) issues before Promise.all
\* is awaited
GetMultipleTasksByGid(taskIds, opts) ==
    IF Len(taskIds) > MultiFetchLimit
    THEN Thrown(JsError("Error", Msg("Maximum of 25 task IDs allowed", {})), <<>>)
    ELSE CallsAll([i \in 1..Len(taskIds) |->
                      VendorRequest("tasks.getTask", taskIds[i], opts)],
                  <<>>)

\* case "asana_get_multiple_tasks_by_gid": the list of an array or of a
\* comma-separated string; any other value has no split method.
GetMultipleTasksCase(args) ==
    LET task_ids == Get(args, "task_ids")
        opts == Rest(args, {"task_ids"})
        split(items) == [i \in 1..Len(items) |-> Str(items[i])]
    IN IF IsArr(task_ids) THEN GetMultipleTasksByGid(task_ids.a, opts)
       ELSE IF IsStr(task_ids)
       THEN CHOOSE out \in {GetMultipleTasksByGid(split(items), opts) :
                                items \in {CommaListSchema(task_ids.s)}} : TRUE
       ELSE Thrown(JsError("TypeError",
                           Msg(IF IsUndefined(task_ids)
                               THEN "Cannot read properties of undefined (reading 'split')"
                               ELSE "task_ids.split is not a function", {})),
                   <<>>)

\* A buggy variant: one request per action, none refused for its length.
ExecuteBatchFanOut(actions, validated) ==
    CallsAll([i \in 1..Len(actions) |->
                 VendorBodyRequest("batch.createBatch",
                                   Obj("data" :> Obj("actions" :> Arr(<<actions[i]>>))),
                                   Undefined, EmptyMap)],
             validated)

\* client.executeBatch(actions), up to the request of the batch API
ExecuteBatch(actions, validated) ==
    IF Len(actions) = 0
    THEN Thrown(JsError("Error", Msg("Batch request must contain at least one action", {})),
                validated)
    ELSE IF Len(actions) > BatchLimit
    THEN Thrown(JsError("Error", Msg("Maximum of 10 actions allowed per batch request (Asana API limitation)", {})),
                validated)
    ELSE Calls(VendorBodyRequest("batch.createBatch",
                                 Obj("data" :> Obj("actions" :> Arr(actions))),
                                 Undefined, EmptyMap),
               validated)

\* client.updateMultipleTasks(taskIds, updates)
UpdateMultipleTasks(taskIds, updates, validated) ==
    IF Len(taskIds) = 0
    THEN Thrown(JsError("Error", Msg("Task IDs array cannot be empty", {})), validated)
    ELSE IF Len(taskIds) > BatchLimit
    THEN Thrown(JsError("Error", Msg("Maximum of 10 tasks can be updated in a single batch request", {})),
                validated)
    ELSE ExecuteBatch([i \in 1..Len(taskIds) |->
                          Obj(("method" :> Str(Chars("PUT")))
                              @@ ("relative_path" :> Str(Chars("/tasks/") \o taskIds[i].s))
                              @@ ("data" :> updates))],
                      validated)

\* The body of a bulk case after validateParams returned data
BulkCall(name, data, validated) ==
    CASE name = "asana_update_multiple_tasks" ->
             UpdateMultipleTasks(data["task_ids"].a, data["updates"], validated)
      [] name = "asana_execute_batch" -> ExecuteBatch(data["actions"].a, validated)
      [] name = "asana_create_multiple_tasks" ->
             LET tasks == data["tasks"].a IN
             ExecuteBatch([i \in 1..Len(tasks) |->
                              Obj(("method" :> Str(Chars("POST")))
                                  @@ ("relative_path" :> Str(Chars("/tasks")))
                                  @@ ("data" :>
                                          Obj(Spread(tasks[i].o,
                                                     "projects" :> Arr(<<data["project_id"]>>)))))],
                          validated)
      [] name = "asana_assign_multiple_tasks" ->
             LET assignments == data["assignments"].a IN
             ExecuteBatch([i \in 1..Len(assignments) |->
                              Obj(("method" :> Str(Chars("PUT")))
                                  @@ ("relative_path" :>
                                          Str(Chars("/tasks/") \o assignments[i].o["task_id"].s))
                                  @@ ("data" :>
                                          Obj("assignee" :> assignments[i].o["assignee"])))],
                          validated)
      [] name = "asana_complete_multiple_tasks" ->
             UpdateMultipleTasks(data["task_ids"].a,
                                 Obj("completed" :> data["completed"]), validated)

\* The bulk cases: validateParams with the case's schema, then the client
BulkCase(name, args) ==
    LET validated(v) ==
            IF v.threw THEN Thrown(v.error, <<BulkSchemaNames[name]>>)
            ELSE BulkCall(name, v.data.o, <<BulkSchemaNames[name]>>)
    IN CHOOSE out \in {validated(v) : v \in {ValidateParams(BulkSchemas[name], Obj(args), name)}}
           : TRUE

\* The switch of tool_handler for the arguments args (an object's members).
Dispatch(name, args) ==
    CASE name = "asana_search_tasks" -> SearchTasksCase(args)
      [] name = "asana_update_task" -> UpdateTaskCase(args)
      [] name \in BulkTools -> BulkCase(name, args)
      [] name = "asana_get_multiple_tasks_by_gid" -> GetMultipleTasksCase(args)
      [] name = "asana_get_task" -> GetTaskCase(args)
      [] name \in DOMAIN IdCases ->
             LET case == IdCases[name]
                 opts == Rest(args, {case.key})
             IN Calls(VendorRequest(case.api, Get(args, case.key),
                                    IF case.keep = "always" \/ Truthy(Get(opts, "opt_fields"))
                                    THEN opts ELSE EmptyMap),
                      <<>>)
      [] name = "asana_create_project_status" ->
             Calls(VendorBodyRequest("projectStatuses.createProjectStatusForProject",
                                     Obj("data" :> Obj(Rest(args, {"project_gid"}))),
                                     Get(args, "project_gid"), EmptyMap),
                   <<>>)
      [] name = "asana_delete_project_status" ->
             Calls(VendorRequest("projectStatuses.deleteProjectStatus",
                                 Get(args, "project_status_gid"), EmptyMap),
                   <<>>)
      [] name = "asana_set_parent_for_task" ->
             LET data == ParseIfString(Get(args, "data"))
                 opts == ParseIfString(Get(args, "opts"))
             IN IF ~data.ok \/ ~opts.ok THEN Thrown(JsonSyntaxError, <<>>)
                ELSE Calls(VendorBodyRequest("tasks.setParentForTask",
                                             Obj("data" :> data.val),
                                             Get(args, "task_id"),
                                             IF IsUndefined(opts.val) THEN EmptyMap
                                             ELSE opts.val.o),
                           <<>>)
      [] name \notin SwitchCases -> Thrown(UnknownToolError(name), <<>>)

\* A buggy variant: the modelled cases are served in read-only mode too.
ToolHandlerStartUnguarded(readOnly, name, args) ==
    IF IsUndefined(args) THEN Thrown(NoArgumentsError, <<>>)
    ELSE IF readOnly /\ name \notin READ_ONLY_TOOLS /\ name \in SwitchCases \ ModelledCases
    THEN Thrown(ReadOnlyError(name), <<>>)
    ELSE Dispatch(name, args.o)

\* The operation tool_handler hands to safeOperation, up to its first await.
ToolHandlerStart(readOnly, name, args) ==
    IF IsUndefined(args) THEN Thrown(NoArgumentsError, <<>>)
    ELSE IF readOnly /\ name \notin READ_ONLY_TOOLS THEN Thrown(ReadOnlyError(name), <<>>)
    ELSE Dispatch(name, args.o)

(***************************************************************************)
(* Specification Spec: one CallToolRequest served by tool_handler          *)
(***************************************************************************)
\* All bags that give each key one of its choices; Undefined leaves the
\* key out.
RECURSIVE Product(_, _)
Product(keys, choices) ==
    IF keys = <<>> THEN {EmptyMap}
    ELSE {IF IsUndefined(v) THEN m ELSE Spread(m, Head(keys) :> v) :
              v \in choices[Head(keys)], m \in Product(Tail(keys), choices)}

Bags(choices) == Product(KeyOrder(DOMAIN choices), choices)

IdValues == {Undefined, Str(Chars("123")), Str(Chars("abc")), Num(5)}

IdBags(key) ==
    Bags((key :> IdValues)
         @@ ("opt_fields" :> {Undefined, Str(Chars("name,assignee.name")),
                              Str(Chars("not a field"))})
         @@ ("limit" :> {Undefined, Num(0), Num(50)}))

ScalarFormMap == "111" :> Str(High)
OperatorFormMap == "111" :> Obj("contains" :> Str(Eng))

SearchBags ==
    Bags(("workspace" :> {Undefined, Str(Chars("999")), Str(Chars("abc")), Num(5)})
         @@ ("projects.any" :> {Undefined, Str(Chars("1,2")), Str(Chars("1,x"))})
         @@ ("completed" :> {Undefined, Bool(FALSE), Str(Chars("TRUE"))})
         @@ ("new_param" :> {Undefined, Str(Chars("v"))})
         @@ ("custom_fields" :>
                 {Undefined, Obj(OperatorFormMap), Obj(ScalarFormMap),
                  Obj("abc" :> Obj("contains" :> Str(Eng))),
                  Str(JsonOperatorMap), Str(JsonBroken)})
         @@ ("limit" :> {Undefined, Num(0), Str(Chars("50"))})
         @@ ("due_on" :> {Undefined, Str(Chars("2025-08-01")), Str(Chars("01/08/2025"))}))

ParentOnly == "parent" :> Str(Chars("456"))
ParentBetween ==
    ParentOnly @@ ("insert_after" :> Str(Chars("7"))) @@ ("insert_before" :> Str(Chars("8")))

SetParentBags ==
    Bags(("task_id" :> {Str(Chars("123")), Str(Chars("abc"))})
         @@ ("data" :>
                 {Undefined, Obj(ParentOnly), Obj(ParentBetween),
                  Str(Chars("{\"parent\":\"456\",\"insert_after\":\"7\",\"insert_before\":\"8\"}")),
                  Str(Chars("{\"parent\":"))})
         @@ ("opts" :> {Undefined, Obj("opt_fields" :> Str(Chars("name"))),
                        Str(Chars("{}"))}))

CreateStatusBags ==
    Bags(("project_gid" :> {Str(Chars("123")), Str(Chars("abc"))})
         @@ ("text" :> {Undefined, Str(Chars("On track")), Str(<<>>)})
         @@ ("color" :> {Undefined, Str(Chars("green")), Str(Chars("blue"))}))

\* Bags for the tools whose case the model does not follow.
OtherBags ==
    Bags(("task_id" :> {Undefined, Str(Chars("123")), Str(Chars("abc"))})
         @@ ("name" :> {Undefined, Str(Chars("Write report"))}))

UpdateTaskBags ==
    Bags(("task_id" :> {Str(Chars("123")), Str(Chars("abc"))})
         @@ ("name" :> {Undefined, Str(Chars("Write report"))})
         @@ ("html_notes" :> {Undefined, Str(<<>>), Str(Chars("<body>Done</body>")),
                              Str(Chars("<body>Done"))}))

\* The longest list of actions, tasks or assignments of a bulk invocation
MaxActions == 11

Repeat(item, n) == [i \in 1..n |-> item]

\* Lists of 0..MaxActions good items, short lists with a bad item, no list,
\* and a value that is no list
ListsOf(good, bad) ==
    {Arr(Repeat(good, n)) : n \in 0..MaxActions}
        \cup {Arr(<<bad>>), Arr(<<good, bad>>), Undefined, good}

BulkBags(name) ==
    CASE name = "asana_update_multiple_tasks" ->
             Bags(("task_ids" :> ListsOf(Str(Chars("123")), Str(Chars("abc"))))
                  @@ ("updates" :> {Undefined, Obj("name" :> Str(Chars("Write report"))),
                                    Obj("completed" :> Str(Chars("TRUE")))}))
      [] name = "asana_execute_batch" ->
             Bags("actions" :>
                      ListsOf(Obj(("method" :> Str(Chars("GET")))
                                  @@ ("relative_path" :> Str(Chars("/tasks/123")))),
                              Obj(("method" :> Str(Chars("PATCH")))
                                  @@ ("relative_path" :> Str(Chars("/tasks/123"))))))
      [] name = "asana_create_multiple_tasks" ->
             Bags(("project_id" :> {Str(Chars("123")), Str(Chars("abc"))})
                  @@ ("tasks" :> ListsOf(Obj("name" :> Str(Chars("Write report"))),
                                         Obj("name" :> Str(<<>>)))))
      [] name = "asana_assign_multiple_tasks" ->
             Bags("assignments" :>
                      ListsOf(Obj(("task_id" :> Str(Chars("123")))
                                  @@ ("assignee" :> Str(Chars("me")))),
                              Obj(("task_id" :> Str(Chars("123")))
                                  @@ ("assignee" :> Str(Chars("you"))))))
      [] name = "asana_complete_multiple_tasks" ->
             Bags(("task_ids" :> ListsOf(Str(Chars("123")), Str(Chars("abc"))))
                  @@ ("completed" :> {Undefined, Bool(TRUE), Str(Chars("true"))}))

\* The most ids of a multi-fetch invocation, and the numbers of ids tried
MaxIds == 26
IdCounts == {0, 1, 2, 3} \cup (MultiFetchLimit .. MaxIds)

\* The ids 1..n, as strings
TaskIds(n) == [i \in 1..n |-> Str(Chars(ToString(i)))]

MultiFetchBags ==
    Bags(("task_ids" :>
              {Arr(TaskIds(n)) : n \in IdCounts}
                  \cup {Str(Chars(JoinWith([i \in 1..n |-> ToString(i)], ","))) : n \in IdCounts}
                  \cup {Str(Chars(" 1, 2 ,,1")), Arr(<<Str(Chars("abc")), Num(5)>>),
                        Undefined, Num(5)})
         @@ ("opt_fields" :> {Undefined, Str(Chars("name,assignee.name"))}))

BagsOf(name) ==
    CASE name = "asana_search_tasks" -> SearchBags
      [] name = "asana_get_multiple_tasks_by_gid" -> MultiFetchBags
      [] name = "asana_update_task" -> UpdateTaskBags
      [] name \in BulkTools -> BulkBags(name)
      [] name = "asana_get_task" -> IdBags("task_id")
      [] name \in DOMAIN IdCases -> IdBags(IdCases[name].key)
      [] name = "asana_delete_project_status" -> IdBags("project_status_gid")
      [] name = "asana_create_project_status" -> CreateStatusBags
      [] name = "asana_set_parent_for_task" -> SetParentBags
      [] OTHER -> OtherBags

Requests ==
    UNION {{[name |-> n, args |-> a] : a \in {Undefined} \cup {Obj(b) : b \in BagsOf(n)}}
               : n \in ToolNames}

\* A request is in the model when it ends before the switch, or falls to the
\* default branch, or takes one of the modelled cases.
InScope(readOnly, req) ==
    \/ IsUndefined(req.args)
    \/ readOnly /\ req.name \notin READ_ONLY_TOOLS
    \/ req.name \notin SwitchCases
    \/ req.name \in ModelledCases

\* What the vendor may answer to a request.
Responses(api) ==
    IF api = "tasks.searchTasksForWorkspace" THEN {Arr(d) : d \in SearchData}
    ELSE {Obj(TaskPlain), Arr(<<>>), Arr(<<Obj(TaskPlain)>>)}

\* What the client method makes of response.data
ClientResult(api, data) ==
    IF api = "tasks.searchTasksForWorkspace" THEN Arr(TransformData(data.a)) ELSE data

Context(name) == "tool execution: " \o name

\* The error the catch block of client.executeBatch throws for a failed request
BatchFailure(error) ==
    JsError("Error", Msg("Batch operation failed: " \o error.msg.text, error.msg.words))

\* What validateAsanaXml(html_notes) may find (validators/html-validator.ts):
\* some errors, or none.
XmlValidationOutcomes == {"errors", "valid"}

\* The result the catch block of case "asana_update_task" returns for a
\* failed update with html_notes.
HtmlNotesDiagnosis(error, outcome) ==
    [kind |-> "ok",
     json |-> Obj(("error" :> Text(error.msg.text))
                  @@ (IF outcome = "errors"
                      THEN ("validation_errors" :> Text("validateAsanaXml(html_notes)"))
                           @@ ("message" :> Text("The HTML notes contain invalid XML formatting. Please check the validation errors above."))
                      ELSE ("html_notes_validation" :> Text("The HTML notes format is valid. The error must be related to something else."))))]

\* What the caller gets when the vendor request of the case fails with
\* error: the case's own catch block, then safeOperation's.
HandlerCatch(name, args, error) ==
    IF /\ name = "asana_update_task"
       /\ Truthy(Get(args.o, "html_notes"))
       /\ "400" \in error.msg.words
    THEN {HtmlNotesDiagnosis(error, outcome) : outcome \in XmlValidationOutcomes}
    ELSE IF name \in BulkTools
    THEN {SafeOperation(BatchFailure(error), Context(name))}
    ELSE {SafeOperation(error, Context(name))}

\* The requests whose answer may come next.  The vendor answers in any
\* order; to keep the state space small the model lets only the oldest of
\* more than MaxInterleaved outstanding requests answer.
MaxInterleaved == 3
Answerable(wait) ==
    IF Cardinality(wait) > MaxInterleaved
    THEN {CHOOSE i \in wait : \A j \in wait : i <= j}
    ELSE wait

Init ==
    /\ IdleExceptHandler
    /\ isReadOnlyMode \in BOOLEAN
    /\ hPc = "request"
    /\ hReq \in Requests
    /\ InScope(isReadOnlyMode, hReq)
    /\ hValidated = <<>>
    /\ hOut = <<>>
    /\ hThrown = <<>>
    /\ hWait = {}
    /\ hGot = <<>>
    /\ hRes = [kind |-> "none"]

\* tool_handler receives the request and runs until it awaits the vendor,
\* or fails before; a failure goes through safeOperation's catch.
HandleRequest ==
    /\ hPc = "request"
    /\ \E r \in {ToolHandlerStart(isReadOnlyMode, hReq.name, hReq.args)} :
       /\ hValidated' = hValidated \o r.validated
       /\ hOut' = hOut \o r.requests
       /\ IF r.threw
          THEN /\ hThrown' = Append(hThrown, r.error)
               /\ hRes' = SafeOperation(r.error, Context(hReq.name))
               /\ hPc' = "done"
               /\ hWait' = {}
          ELSE IF r.requests = <<>>
          THEN \* Promise.all([]) resolves with []
               /\ hRes' = [kind |-> "ok", json |-> Arr(<<>>)]
               /\ hPc' = "done"
               /\ hWait' = {}
               /\ UNCHANGED hThrown
          ELSE /\ hPc' = "awaiting"
               /\ hWait' = Len(hOut) + 1 .. Len(hOut) + Len(r.requests)
               /\ UNCHANGED <<hThrown, hRes>>
    /\ UNCHANGED <<isReadOnlyMode, hReq, hGot, exceptHandler>>

\* The task the vendor returns for tasks.getTask(target)
TaskWithGid(target) == Obj(("gid" :> target) @@ ("name" :> Text("Write report")))

\* A buggy variant: the answers in the order they arrived.
PromiseAllByArrival(n, got) == [k \in 1..n |-> got[k].data]

\* await Promise.all(taskIds.map(...)) once all n promises are fulfilled:
\* element i is the value of the i-th promise, whenever it was fulfilled.
PromiseAll(n, got) ==
    [i \in 1..n |-> (CHOOSE g \in Range(got) : g.req = i).data]

\* The vendor answers; the handler returns the client's result as JSON text,
\* for several fetches once the last of them is answered.
VendorReplies ==
    /\ hPc = "awaiting"
    /\ \E i \in Answerable(hWait) :
       /\ hWait' = hWait \ {i}
       /\ IF hReq.name = "asana_get_multiple_tasks_by_gid"
          THEN /\ hGot' = Append(hGot, [req |-> i, data |-> TaskWithGid(hOut[i].target)])
               /\ IF hWait = {i}
                  THEN /\ \E tasks \in {PromiseAll(Len(hOut), hGot')} :
                              hRes' = [kind |-> "ok", json |-> Arr(tasks)]
                       /\ hPc' = "done"
                  ELSE UNCHANGED <<hRes, hPc>>
          ELSE /\ \E data \in Responses(hOut[i].api) :
                      /\ hGot' = Append(hGot, [req |-> i, data |-> data])
                      /\ hRes' = [kind |-> "ok", json |-> ClientResult(hOut[i].api, data)]
               /\ hPc' = "done"
    /\ UNCHANGED <<isReadOnlyMode, hReq, hValidated, hOut, hThrown, exceptHandler>>

\* The vendor request fails; the error reaches safeOperation's catch.
VendorFails ==
    /\ hPc = "awaiting"
    /\ \E i \in Answerable(hWait), e \in VendorErrors :
           /\ hWait' = hWait \ {i}
           /\ hThrown' = Append(hThrown, e)
           /\ hRes' \in HandlerCatch(hReq.name, hReq.args, e)
    /\ hPc' = "done"
    /\ UNCHANGED <<isReadOnlyMode, hReq, hValidated, hOut, hGot, exceptHandler>>

Next == HandleRequest \/ VendorReplies \/ VendorFails

Spec == Init /\ [][Next]_vars

(***************************************************************************)
(* Claims on the tool handler (Spec)                                       *)
(***************************************************************************)
\* The request passes the two checks that precede the switch.
ReachesSwitch ==
    /\ ~IsUndefined(hReq.args)
    /\ ~(isReadOnlyMode /\ hReq.name \notin READ_ONLY_TOOLS)

\* C1: in read-only mode a call of a tool outside READ_ONLY_TOOLS, whatever
\* its argument bag, is rejected by the read-only check: no schema is applied
\* to the arguments, no request is issued to the vendor at any point, and the
\* caller gets an error that, for every tool of all_tools, reads "Tool <name>
\* is not available in read-only mode" under the handler's context.
C1_ReadOnlyRejection ==
    (isReadOnlyMode /\ hReq.name \notin READ_ONLY_TOOLS /\ ~IsUndefined(hReq.args)) =>
        /\ hValidated = <<>>
        /\ hOut = <<>>
        /\ hPc \in {"request", "done"}
        /\ hPc = "done" =>
               /\ Len(hThrown) = 1
               /\ hThrown[1].msg.text
                      = "Tool " \o hReq.name \o " is not available in read-only mode"
               /\ hRes.kind = "error"
               /\ hReq.name \in Range(all_tools) =>
                      hRes.msg.text = "tool execution: " \o hReq.name \o ": Tool "
                                          \o hReq.name \o " is not available in read-only mode"

C1_Witness ==
    /\ isReadOnlyMode
    /\ hReq.name = "asana_set_parent_for_task"
    /\ hReq.args = Obj(("task_id" :> Str(Chars("123"))) @@ ("data" :> Obj(ParentOnly)))
    /\ hPc = "done"
    /\ hRes.kind = "error"
    /\ hOut = <<>>

\* The schema tool-schemas.ts declares for a tool.
SchemaOf ==
    ("asana_search_tasks" :> SearchTasksSchema)
    @@ ("asana_get_task" :> GetTaskSchema)
    @@ ("asana_get_task_stories" :> GetTaskStoriesSchema)
    @@ ("asana_get_project" :> GetProjectSchema)
    @@ ("asana_get_project_task_counts" :> GetProjectTaskCountsSchema)
    @@ ("asana_get_project_sections" :> GetProjectSectionsSchema)
    @@ ("asana_get_project_status" :> GetProjectStatusSchema)
    @@ ("asana_get_project_statuses" :> GetProjectStatusesForProjectSchema)
    @@ ("asana_create_project_status" :> CreateProjectStatusSchema)
    @@ ("asana_delete_project_status" :> DeleteProjectStatusSchema)
    @@ ("asana_set_parent_for_task" :> SetParentForTaskSchema)
    @@ ("asana_get_tasks_for_tag" :> GetTasksForTagSchema)
    @@ ("asana_get_tags_for_workspace" :> GetTagsForWorkspaceSchema)

\* C2 as stated: a call whose argument bag breaks the parameter rules of its
\* tool's schema never issues a vendor request and ends in a validation
\* failure.
C2_ValidationBeforeVendor ==
    (/\ ReachesSwitch
     /\ hReq.name \in DOMAIN SchemaOf
     /\ ZParse(SchemaOf[hReq.name], hReq.args).status # "valid") =>
        /\ hOut = <<>>
        /\ hPc = "done" => hValidated # <<>> /\ hRes.kind = "error"

\* C3 as stated: a re-parent call whose data sets both insert_after and
\* insert_before issues no vendor request and fails with one error that
\* names the conflict.
C3_InsertConflictRejected ==
    (/\ ReachesSwitch
     /\ hReq.name = "asana_set_parent_for_task"
     /\ Get(hReq.args.o, "data") = Obj(ParentBetween)) =>
        /\ hOut = <<>>
        /\ hPc = "done" =>
               /\ hRes.kind = "error"
               /\ Len(hThrown) = 1
               /\ hThrown[1].cls = "ValidationError"
               /\ Len(hThrown[1].issues) = 1
               /\ hThrown[1].issues[1].message
                      = "Cannot specify both insert_after and insert_before"

\* The keys SearchTasksSchema names.
SearchTasksKeys == {SearchTasksSchema.shape[i].key : i \in 1..Len(SearchTasksSchema.shape)}

\* C4 as stated: every key of a task search that the validator does not
\* recognise is in the outbound request with the same value.
C4_UnknownKeysPassedThrough ==
    (hReq.name = "asana_search_tasks" /\ hOut # <<>>) =>
        \A k \in (DOMAIN hReq.args.o) \ SearchTasksKeys :
            /\ k \in DOMAIN hOut[1].params
            /\ hOut[1].params[k] = hReq.args.o[k]

\* {workspace: "999", "projects.any": "1,2", completed: false}
ScenarioA ==
    ("workspace" :> Str(Chars("999")))
    @@ ("projects.any" :> Str(Chars("1,2")))
    @@ ("completed" :> Bool(FALSE))

\* C5 as stated: for the input ScenarioA the validator passes and one
\* outbound call is issued whose parameters are the three keys with their
\* values unchanged.
C5_ScenarioAForwarded ==
    (hReq = [name |-> "asana_search_tasks", args |-> Obj(ScenarioA)] /\ hPc # "request") =>
        /\ Len(hOut) = 1
        /\ Spread(hOut[1].params, "workspace" :> hOut[1].target) = ScenarioA

\* C7 as stated: a custom_fields value that is a well-formed JSON string is
\* validated and expanded like the equivalent object (the same schemas
\* applied, the same request issued), and one that does not parse fails,
\* with no vendor request, with the error "custom_fields must be a JSON
\* object ...", not with the validator's message.
C7_JsonStringCustomFields ==
    (hReq.name = "asana_search_tasks" /\ hPc # "request" /\ ~IsUndefined(hReq.args)) =>
        /\ Get(hReq.args.o, "custom_fields") = Str(JsonOperatorMap) =>
               LET same == ToolHandlerStart(isReadOnlyMode, hReq.name,
                               Obj(Spread(hReq.args.o,
                                          "custom_fields" :> Obj(OperatorFormMap))))
               IN IF same.threw THEN hOut = <<>> ELSE hOut = same.requests
        /\ (/\ Get(hReq.args.o, "custom_fields") = Str(JsonBroken)
            /\ ZParse(SearchTasksSchema,
                      Obj(Rest(hReq.args.o, {"custom_fields"}))).status = "valid") =>
               /\ hOut = <<>>
               /\ hThrown[1].cls = "SyntaxError"

(***************************************************************************)
(* The validators called on their own (SpecValidate)                       *)
(***************************************************************************)
\* tool-schemas.ts 522-530
GetPortfoliosSchema ==
    ZObject(<<ZField("workspace", GidSchema), ZField("owner", ZOptional(GidSchema)),
              ZField("limit", ZOptional(ZLimit)), ZField("offset", ZOptional(ZString)),
              ZField("opt_fields", OptFieldsSchema)>>)

\* The tools whose validator SpecValidate calls, with their schemas.
ValidatedSchemas ==
    ("asana_search_tasks" :> SearchTasksSchema)
    @@ ("asana_get_portfolios" :> GetPortfoliosSchema)
    @@ ("asana_get_task" :> GetTaskSchema)

\* error.errors.map(...) of getValidationDetails and of
\* validateSearchTasksParams: path, message and zod's `received`, if any.
GetValidationDetails(issues) ==
    [i \in 1..Len(issues) |->
        [path |-> issues[i].path, message |-> issues[i].message,
         received |-> issues[i].received]]

\* What a validator gives: the parsed data, or the error it throws, the
\* details that error is built from, and what safeOperation reports.
ValidatorResult(tool, args) ==
    CHOOSE out \in
        { IF r.status = "valid"
          THEN [kind |-> "ok", data |-> r.data]
          ELSE [kind |-> "error",
                details |-> GetValidationDetails(r.issues),
                error |-> IF tool = "asana_search_tasks"
                          THEN JsError("Error", SearchTasksMessage(r.issues))
                          ELSE ValidationError("Validation failed for " \o tool, r.issues),
                res |-> IF tool = "asana_search_tasks"
                        THEN SafeOperation(JsError("Error", SearchTasksMessage(r.issues)),
                                           Context(tool))
                        ELSE ValidationToMcpError(ValidationError("", r.issues))]
            : r \in {ZParse(ValidatedSchemas[tool], args)} } : TRUE

\* The members of SearchTasksSchema that hold identifiers of users ...
UserIdKeys ==
    {"assignee.any", "assignee.not", "created_by.any", "created_by.not",
     "assigned_by.any", "assigned_by.not", "followers.any", "followers.not",
     "liked_by.any", "liked_by.not", "commented_on_by.any", "commented_on_by.not"}
\* ... and of other resources.
ResourceIdKeys ==
    {"projects.any", "projects.all", "projects.not", "sections.any", "sections.all",
     "sections.not", "tags.any", "tags.all", "tags.not", "teams.any", "portfolios.any"}

IdStrings == {Chars("123"), Chars("7"), Chars("abc"), Chars("12a"), Chars("me")}

Workspace999 == "workspace" :> Str(Chars("999"))

\* One identifier member next to a valid workspace, or the workspace itself.
IdentifierInputs ==
    {[tool |-> "asana_search_tasks", args |-> Obj(Spread(Workspace999, k :> Str(s)))]
         : k \in UserIdKeys \cup ResourceIdKeys \cup {"workspace"}, s \in IdStrings}
    \cup {[tool |-> "asana_get_portfolios", args |-> Obj(Spread(Workspace999, k :> Str(s)))]
              : k \in {"workspace", "owner"}, s \in IdStrings}
    \cup {[tool |-> "asana_get_task", args |-> Obj("task_id" :> Str(s))] : s \in IdStrings}

BooleanKeys ==
    {"completed", "is_subtask", "has_attachment", "is_blocked", "is_blocking",
     "sort_ascending"}

BooleanStrings ==
    {Chars("true"), Chars("TRUE"), Chars("True"), Chars("tRuE"), Chars("false"),
     Chars("FALSE"), Chars("False"), Chars("yes"), Chars("no"), Chars("1"), <<>>,
     Chars("truee"), Chars(" true")}

BooleanInputs ==
    {[tool |-> "asana_search_tasks", args |-> Obj(Spread(Workspace999, k :> v))]
         : k \in BooleanKeys,
           v \in {Bool(TRUE), Bool(FALSE), Num(1), Null} \cup {Str(s) : s \in BooleanStrings}}

\* Bags in which several members can be wrong at once.
SeveralInputs ==
    {[tool |-> "asana_search_tasks", args |-> Obj(b)] : b \in
        Bags(("workspace" :> {Undefined, Str(Chars("999")), Str(Chars("abc")), Num(5)})
             @@ ("due_on" :> {Undefined, Str(Chars("2025-08-01")), Str(Chars("01/08/2025"))})
             @@ ("sort_by" :> {Undefined, Str(Chars("likes")), Str(Chars("bogus"))})
             @@ ("projects.any" :> {Undefined, Str(Chars("1,x")), Str(Chars("x,y"))})
             @@ ("limit" :> {Undefined, Num(0), Num(50)}))}
    \cup {[tool |-> "asana_get_task", args |-> Obj(b)] : b \in IdBags("task_id")}

ValidateInputs == IdentifierInputs \cup BooleanInputs \cup SeveralInputs

ValidateInit ==
    /\ IdleExceptValidate
    /\ vPc = "input"
    /\ vIn \in ValidateInputs
    /\ vOut = [kind |-> "none"]

\* validateSearchTasksParams(args) / ErrorHandlers.validateParams(schema, args, tool)
Validate ==
    /\ vPc = "input"
    /\ vOut' = ValidatorResult(vIn.tool, vIn.args)
    /\ vPc' = "done"
    /\ UNCHANGED <<vIn, exceptValidate>>

NextValidate == Validate

SpecValidate == ValidateInit /\ [][NextValidate]_vars

(***************************************************************************)
(* Claims on the validators (SpecValidate)                                 *)
(***************************************************************************)
\* The identifier member of an input of IdentifierInputs.
IdKeyOf(args) ==
    IF DOMAIN args.o = {"workspace"} THEN "workspace"
    ELSE CHOOSE k \in DOMAIN args.o : k # "workspace" \/ DOMAIN args.o = {k}

\* C11 as stated: a validated identifier parameter is accepted exactly when
\* it is a string of digits, except that a parameter holding a user
\* identifier (the user filters of the task search, the owner of a
\* portfolio listing) is also accepted when it is "me".
C11_IdentifiersOrMe ==
    (vPc = "done" /\ vIn \in IdentifierInputs) =>
        LET k == IdKeyOf(vIn.args)
            s == vIn.args.o[k].s
        IN (vOut.kind = "ok")
               <=> (IsGid(s) \/ (k \in UserIdKeys \cup {"owner"} /\ s = Chars("me")))

\* The boolean member of an input of BooleanInputs.
BooleanKeyOf(args) == CHOOSE k \in DOMAIN args.o : k \in BooleanKeys

\* C12 as stated: a boolean filter is accepted exactly when it is a boolean
\* or a string that reads "true" or "false" in some letter case; "true"
\* yields true, "false" yields false, a boolean yields itself.
C12_BooleanOrString ==
    (vPc = "done" /\ vIn \in BooleanInputs) =>
        LET k == BooleanKeyOf(vIn.args)
            v == vIn.args.o[k]
            reads(word) == IsStr(v) /\ ToLowerCase(v.s) = Chars(word)
        IN /\ (vOut.kind = "ok") <=> (IsBool(v) \/ reads("true") \/ reads("false"))
           /\ vOut.kind = "ok" =>
                  vOut.data.o[k] = (IF IsBool(v) THEN v ELSE Bool(reads("true")))

\* The members of the tool's schema that the argument bag gets wrong.
FailingKeys(tool, args) ==
    LET shape == ValidatedSchemas[tool].shape IN
    {shape[i].key : i \in {j \in 1..Len(shape) :
        ZParse(shape[j].schema, Get(args.o, shape[j].key)).status # "valid"}}

\* The path is the member, or lies under it.
PathUnder(path, key) ==
    \/ path = key
    \/ Len(path) > Len(key) /\ SubSeq(path, 1, Len(key) + 1) = key \o "."

\* C13 as stated: when a bag gets several members wrong, the validation
\* error reports every one of them, each with its dotted path, a message
\* and the raw value that was offered.
C13_AllFailuresWithRawValue ==
    (vPc = "done" /\ vIn \in SeveralInputs) =>
        LET failing == FailingKeys(vIn.tool, vIn.args) IN
        /\ (vOut.kind = "error") <=> (failing # {})
        /\ \A k \in failing :
               \E i \in 1..Len(vOut.details) :
                   /\ PathUnder(vOut.details[i].path, k)
                   /\ vOut.details[i].message # ""
                   /\ vOut.details[i].received = <<Display(Get(vIn.args.o, k))>>

(***************************************************************************)
(* The error classifier called on its own (SpecClassify)                   *)
(***************************************************************************)
StatusValues == {0, 400, 401, 403, 404, 429, 500, 503}
ResponseStatusValues == {0, 401, 404, 429, 503}
CodeValues == {"", "ENOTFOUND", "ECONNREFUSED", "ETIMEDOUT", "EPIPE"}

VendorMessage == [message |-> Msg("workspace: Not a recognized ID", {}), phrase |-> ""]

\* error.message: a string, a string that mentions a timeout, none, a number
MessageValues ==
    {Msg("Request failed", {}), Msg("timeout of 30000ms exceeded", {"timeout"}),
     Undefined, Num(42)}

\* Objects that may be thrown: the fields the classifier reads, in every
\* combination.
ThrownObjects ==
    {[JsError("Error", m) EXCEPT
          !.code = c, !.status = s, !.respStatus = rs,
          !.respStatusText = IF rs = 404 THEN "Not Found" ELSE "",
          !.hasValueErrors = (ve # "none"),
          !.valueErrors = IF ve = "one" THEN <<VendorMessage>> ELSE <<>>]
        : m \in MessageValues, c \in CodeValues, s \in StatusValues,
          rs \in ResponseStatusValues, ve \in {"none", "empty", "one"}}
    \cup {[JsError("Error", Msg("Too Many Requests", {})) EXCEPT
               !.statusCode = 429, !.hasValueErrors = (ve # "none"),
               !.valueErrors = IF ve = "one" THEN <<VendorMessage>> ELSE <<>>]
             : ve \in {"none", "one"}}

\* Values that are not objects
ThrownScalars == {Undefined, Null, Str(Chars("boom")), Str(<<>>), Num(0), Num(5), Bool(FALSE)}

ClassifyInputs == ThrownObjects \cup ThrownScalars

ClassifyContext == Context("asana_get_task")

ClassifyInit ==
    /\ IdleExceptClassify
    /\ ePc = "input"
    /\ eIn \in ClassifyInputs
    /\ eOut = [kind |-> "none"]

\* enhanceAsanaError(error, context) called directly
Enhance ==
    /\ ePc = "input"
    /\ \E e \in {EnhanceAsanaError(eIn, ClassifyContext)} :
           eOut' = [kind |-> IF e.threw THEN "throw" ELSE "enhanced", enhanced |-> e]
    /\ ePc' = "done"
    /\ UNCHANGED <<eIn, exceptClassify>>

\* ErrorHandlers.safeOperation catches the value thrown by its operation
Catch ==
    /\ ePc = "input"
    /\ \E r \in {SafeOperationCatch(eIn, ClassifyContext)} :
           eOut' = [kind |-> "caught", res |-> r]
    /\ ePc' = "done"
    /\ UNCHANGED <<eIn, exceptClassify>>

NextClassify == Enhance \/ Catch

SpecClassify == ClassifyInit /\ [][NextClassify]_vars

(***************************************************************************)
(* Claims on the error classifier (SpecClassify)                           *)
(***************************************************************************)
\* The kind a classification stands for: the cases asanaErrorToMcpError
\* tells apart by the code; a vendor phrase or ASANA_API_ERROR is the
\* vendor-API kind, no code at all the generic kind.
KindOf(enhanced) ==
    CASE enhanced.code \in {"NETWORK_ERROR", "CONNECTION_REFUSED", "TIMEOUT"} -> "network"
      [] enhanced.code = "UNAUTHORIZED" -> "authentication"
      [] enhanced.code = "FORBIDDEN" -> "permission"
      [] enhanced.code = "NOT_FOUND" -> "not-found"
      [] enhanced.code = "RATE_LIMITED" -> "rate-limit"
      [] enhanced.code = "SERVER_ERROR" -> "server"
      [] enhanced.code = "ASANA_API_ERROR" -> "vendor-api"
      [] enhanced.code = "" -> "generic"
      [] OTHER -> "http-status"

\* The status table of the specification.
StatusTable(status) ==
    CASE status = 401 -> "authentication"
      [] status = 403 -> "permission"
      [] status = 404 -> "not-found"
      [] status = 429 -> "rate-limit"
      [] status >= 500 /\ status <= 599 -> "server"
      [] OTHER -> "unlisted"

\* The HTTP statuses an error object carries (0 is an absent field).
StatusesOf(error) == {error.status, error.respStatus, error.statusCode} \ {0}

TheStatusOf(error) == CHOOSE s \in StatusesOf(error) : TRUE

\* An error object with a plain message, a vendor array that is absent or
\* not empty, and at most one status, which the table lists.
PlainError(error) ==
    /\ IsThrownObject(error)
    /\ error.msg = Msg("Request failed", {})
    /\ error.hasValueErrors => error.valueErrors # <<>>
    /\ Cardinality(StatusesOf(error)) <= 1
    /\ \A s \in StatusesOf(error) : StatusTable(s) # "unlisted"

\* The classification goes by the status: the table's kind, or the bare
\* HTTP_<status> code of the response branch.
ByStatus(enhanced, status) ==
    /\ enhanced.status = status
    /\ KindOf(enhanced) \in {StatusTable(status), "http-status"}

\* C14 as stated: a transport code gives the network kind; otherwise a
\* status (one of 401, 403, 404, 429, 500) decides; otherwise a vendor error
\* array gives the vendor-API kind with its first message; otherwise the
\* kind is generic.
C14_ClassificationOrder ==
    (/\ ePc = "done" /\ eOut.kind = "enhanced" /\ PlainError(eIn)
     /\ StatusesOf(eIn) \subseteq {401, 403, 404, 429, 500}) =>
        IF eIn.code \in TransportCodes THEN KindOf(eOut.enhanced) = "network"
        ELSE IF StatusesOf(eIn) # {}
             THEN ByStatus(eOut.enhanced, TheStatusOf(eIn))
        ELSE IF eIn.hasValueErrors
             THEN /\ KindOf(eOut.enhanced) = "vendor-api"
                  /\ eOut.enhanced.message
                         = WithContext(ClassifyContext, eIn.valueErrors[1].message)
        ELSE KindOf(eOut.enhanced) = "generic"

\* C15 as stated: an error that carries nothing but an HTTP status, in its
\* status field or in response.status, is classified by the table
\* 401, 403, 404, 429, 5xx.
C15_StatusTable ==
    (/\ ePc = "done" /\ eOut.kind = "enhanced" /\ PlainError(eIn)
     /\ eIn.code = "" /\ ~eIn.hasValueErrors /\ eIn.statusCode = 0
     /\ StatusesOf(eIn) # {}) =>
        KindOf(eOut.enhanced) = StatusTable(TheStatusOf(eIn))

\* C16 as stated: whatever is thrown, the classifier returns a
\* classification with some message and does not throw.
C16_ClassifierTotal ==
    (ePc = "done" /\ eOut.kind \in {"enhanced", "throw"}) =>
        /\ eOut.kind = "enhanced"
        /\ eOut.enhanced.message.text # ""

RateLimitSuggestion == "Wait a few moments before retrying the request"

\* C17 as stated: a vendor error that carries the status 429, in whichever
\* field, reaches the caller of safeOperation as an error with the advice
\* to wait before retrying and with the status 429.
C17_RateLimited ==
    (/\ ePc = "done" /\ eOut.kind = "caught" /\ PlainError(eIn)
     /\ eIn.code = "" /\ StatusesOf(eIn) = {429}) =>
        /\ eOut.res.kind = "error"
        /\ eOut.res.status = 429
        /\ \/ eOut.res.suggestion = RateLimitSuggestion
           \/ eOut.res.msg.text
                  = "Rate Limiting: Rate limit exceeded - please wait before making more requests"


(***************************************************************************)
(* Claims about the failures of vendor requests                            *)
(***************************************************************************)
\* C18: whenever a vendor request made for an invocation fails, the caller
\* receives a structured error payload (an error kind and a human message)
\* and never a success-shaped result.
C18_NoFailureSwallowed ==
    (hPc = "done" /\ hOut # <<>> /\ hThrown # <<>>) =>
        /\ hRes.kind = "error"
        /\ hRes.mcp # ""
        /\ hRes.msg.text # ""

(***************************************************************************)
(* Claims about the bulk tools                                             *)
(***************************************************************************)
\* The member of the arguments that lists the actions of a bulk invocation
BulkListKey ==
    ("asana_update_multiple_tasks" :> "task_ids")
    @@ ("asana_execute_batch" :> "actions")
    @@ ("asana_create_multiple_tasks" :> "tasks")
    @@ ("asana_assign_multiple_tasks" :> "assignments")
    @@ ("asana_complete_multiple_tasks" :> "task_ids")

BulkList(req) == Get(req.args.o, BulkListKey[req.name])

\* The invocation passes the read-only gate and its schema.
BulkAccepted(readOnly, req) ==
    /\ ~readOnly
    /\ ~ValidateParams(BulkSchemas[req.name], req.args, req.name).threw

\* C19: a bulk invocation (update, create, assign or complete multiple tasks,
\* execute batch) issues batch requests only, never more than one, so a
\* failed request is never issued again; with 0 or more than 10 actions it
\* issues none; an accepted one with 1 to 10 actions issues exactly one,
\* carrying all its actions.
C19_OneBatchRequest ==
    (hPc \in {"awaiting", "done"} /\ hReq.name \in BulkTools /\ ~IsUndefined(hReq.args)) =>
        LET list == BulkList(hReq) IN
        /\ Len(hOut) <= 1
        /\ \A i \in 1..Len(hOut) : hOut[i].api = "batch.createBatch"
        /\ (IsArr(list) /\ (Len(list.a) = 0 \/ Len(list.a) > BatchLimit)) => hOut = <<>>
        /\ (IsArr(list) /\ Len(list.a) \in 1..BatchLimit
               /\ BulkAccepted(isReadOnlyMode, hReq)) =>
                  /\ Len(hOut) = 1
                  /\ Len(hOut[1].body.o["data"].o["actions"].a) = Len(list.a)

\* A batch of 10 actions failed and the invocation ended with its one request.
C19_Witness ==
    /\ hPc = "done" /\ hReq.name \in BulkTools /\ ~IsUndefined(hReq.args)
    /\ IsArr(BulkList(hReq)) /\ Len(BulkList(hReq).a) = BatchLimit
    /\ Len(hOut) = 1 /\ hThrown # <<>> /\ hRes.kind = "error"

(***************************************************************************)
(* Claims about fetching several tasks by id                               *)
(***************************************************************************)
\* The ids an invocation of asana_get_multiple_tasks_by_gid names: the
\* elements of an array, the parts of a comma-separated string.
RequestedIds(task_ids) ==
    IF IsArr(task_ids) THEN task_ids.a
    ELSE LET parts == CommaListSchema(task_ids.s)
         IN [i \in 1..Len(parts) |-> Str(parts[i])]

\* C20: fetching several tasks by id issues one fetch per requested id, all
\* of them before any answer is awaited, and never more than 25; a request
\* naming more than 25 ids is rejected before any fetch is issued.
C20_ParallelFetches ==
    (/\ hPc \in {"awaiting", "done"}
     /\ hReq.name = "asana_get_multiple_tasks_by_gid"
     /\ ~IsUndefined(hReq.args)
     /\ IsArr(Get(hReq.args.o, "task_ids")) \/ IsStr(Get(hReq.args.o, "task_ids"))) =>
        LET ids == RequestedIds(Get(hReq.args.o, "task_ids")) IN
        /\ Len(hOut) <= MultiFetchLimit
        /\ hWait \subseteq 1..Len(hOut)
        /\ Len(ids) > MultiFetchLimit => (hOut = <<>> /\ hPc = "done" /\ hRes.kind = "error")
        /\ Len(ids) <= MultiFetchLimit =>
               /\ Len(hOut) = Len(ids)
               /\ \A i \in 1..Len(ids) :
                      hOut[i].api = "tasks.getTask" /\ hOut[i].target = ids[i]

\* 25 fetches were issued at once and their answers come out of order.
C20_Witness ==
    /\ hPc = "awaiting"
    /\ hReq.name = "asana_get_multiple_tasks_by_gid"
    /\ Len(hOut) = MultiFetchLimit
    /\ hWait = {MultiFetchLimit - 2, MultiFetchLimit}

(***************************************************************************)
(* The Slack servers (slack-mcp-server/src/index.ts, enhanced-index.ts,    *)
(* oauth.ts).  Tool calls are handled concurrently: a handler runs to its  *)
(* first await and resumes when the awaited request is answered.           *)
(***************************************************************************)
\* The most tool calls in flight at once
MaxCalls == 2
Slots == 1..MaxCalls

baseTools ==
    {"slack_list_channels", "slack_post_message", "slack_reply_to_thread",
     "slack_add_reaction", "slack_get_channel_history", "slack_get_thread_replies",
     "slack_get_users", "slack_get_user_profile"}
oauthTools == {"slack_get_oauth_url", "slack_exchange_oauth_code", "slack_oauth_status"}

\* oauthManager.isOAuthConfigured(), isStaticTokenConfigured()
IsOAuthConfigured(cfg) == cfg.oauth
IsStaticTokenConfigured(cfg) == cfg.botToken # ""

\* The tools the server lists
tools(server, cfg) ==
    IF server = "enhanced" /\ IsOAuthConfigured(cfg) THEN baseTools \cup oauthTools
    ELSE baseTools

\* The method of the Slack Web API each case of index.ts calls
SlackApi ==
    ("slack_list_channels" :> "conversations.list")
    @@ ("slack_post_message" :> "chat.postMessage")
    @@ ("slack_reply_to_thread" :> "chat.postMessage")
    @@ ("slack_add_reaction" :> "reactions.add")
    @@ ("slack_get_channel_history" :> "conversations.history")
    @@ ("slack_get_thread_replies" :> "conversations.replies")
    @@ ("slack_get_users" :> "users.list")
    @@ ("slack_get_user_profile" :> "users.profile.get")

\* The cases whose arguments name a channel
ChannelTools ==
    {"slack_post_message", "slack_reply_to_thread", "slack_add_reaction",
     "slack_get_channel_history", "slack_get_thread_replies"}

\* The cases of the switch of each server
SlackCases(server) ==
    IF server = "enhanced" THEN {"slack_list_channels", "slack_post_message"}
    ELSE DOMAIN SlackApi

\* config.SLACK_CHANNEL_IDS ? config.SLACK_CHANNEL_IDS.split(",").map(id => id.trim())
\*                          : undefined
AllowedChannels(cfg) ==
    IF cfg.channelIds = "" THEN [limited |-> FALSE, ids |-> {}]
    ELSE [limited |-> TRUE,
          ids |-> {Join(id) : id \in Range(MapTrim(Split(Chars(cfg.channelIds))))}]

\* What a handler has done when it reaches its first await or returns
SlackFails(message) ==
    [requested |-> FALSE, api |-> "", channel |-> "", token |-> "", ended |-> TRUE,
     isError |-> TRUE, text |-> "Error: " \o message]
SlackReturns(text) ==
    [requested |-> FALSE, api |-> "", channel |-> "", token |-> "", ended |-> TRUE,
     isError |-> FALSE, text |-> text]
SlackRequests(api, channel, token) ==
    [requested |-> TRUE, api |-> api, channel |-> channel, token |-> token,
     ended |-> FALSE, isError |-> FALSE, text |-> ""]

\* The switch over the regular tools, with the client that holds token
SlackSwitch(server, name, channel, token) ==
    IF name \in SlackCases(server)
    THEN SlackRequests(SlackApi[name], IF name \in ChannelTools THEN channel ELSE "", token)
    ELSE SlackFails("Unknown tool: " \o name)

\* A buggy variant: the regular tools run whether or not the client has a token.
CallToolUnchecked(server, cfg, token, name, channel) ==
    SlackSwitch(server, name, channel, token)

\* The CallTool handler up to its first await
CallTool(server, cfg, token, name, channel) ==
    IF server = "index" THEN SlackSwitch(server, name, channel, token)
    ELSE IF name = "slack_get_oauth_url"
    THEN IF ~IsOAuthConfigured(cfg)
         THEN SlackFails("OAuth not configured. Set SLACK_CLIENT_ID, SLACK_CLIENT_SECRET, and SLACK_REDIRECT_URI")
         ELSE SlackReturns("authorization_url")
    ELSE IF name = "slack_exchange_oauth_code"
    THEN IF ~IsOAuthConfigured(cfg) THEN SlackFails("OAuth not configured")
         ELSE SlackRequests("oauth.v2.access", "", "")
    ELSE IF name = "slack_oauth_status" THEN SlackReturns("oauth_configured")
    ELSE IF token = ""
    THEN SlackFails("Slack client not authenticated. Use OAuth flow or configure SLACK_BOT_TOKEN")
    ELSE SlackSwitch(server, name, channel, token)

\* A buggy variant: the client is replaced whatever the exchange returned.
ExchangeUpdateAlways(token, data) == data.access_token

\* if (tokenData.access_token) slack = new WebClient(tokenData.access_token)
ExchangeUpdate(token, data) ==
    IF data.access_token # "" THEN data.access_token ELSE token

\* What the awaited request may bring: a response, or a rejection.
StaticToken == "xoxb-static"
ExchangeTokens == {"xoxb-1", "xoxb-2"}
WorkspaceChannels == {<<>>, <<"C1", "C2", "C9">>, <<"C9">>}
SlackAnswer(kind, ok, access_token, channels) ==
    [kind |-> kind, ok |-> ok, access_token |-> access_token, channels |-> channels]
SlackResponses(api) ==
    {SlackAnswer("throw", FALSE, "", <<>>)}
        \cup (IF api = "oauth.v2.access"
              THEN {SlackAnswer("json", TRUE, t, <<>>) : t \in ExchangeTokens \cup {""}}
                       \cup {SlackAnswer("json", FALSE, "", <<>>)}
              ELSE IF api = "conversations.list"
              THEN {SlackAnswer("json", TRUE, "", c) : c \in WorkspaceChannels}
              ELSE {SlackAnswer("json", TRUE, "", <<>>)})

\* The handler after its await: [isError, text, channels, token], token being
\* what the module-level client holds afterwards.
CallToolResume(cfg, token, call, answer) ==
    IF answer.kind = "throw"
    THEN [isError |-> TRUE, text |-> "Error: request failed", channels |-> {},
          token |-> token]
    ELSE IF call.name = "slack_exchange_oauth_code"
    THEN IF ~answer.ok
         THEN [isError |-> TRUE, text |-> "Error: OAuth error: invalid_code",
               channels |-> {}, token |-> token]
         ELSE [isError |-> FALSE,
               text |-> "OAuth token exchanged successfully. Slack client updated.",
               channels |-> {}, token |-> ExchangeUpdate(token, answer)]
    ELSE IF call.name = "slack_list_channels"
    THEN LET allowed == AllowedChannels(cfg) IN
         [isError |-> FALSE, text |-> "channels",
          channels |-> {id \in Range(answer.channels) : ~allowed.limited \/ id \in allowed.ids},
          token |-> token]
    ELSE [isError |-> FALSE, text |-> "ok", channels |-> {}, token |-> token]

\* The environments the servers start with: index.ts requires SLACK_BOT_TOKEN,
\* enhanced-index.ts a static token or the OAuth configuration.
ChannelIdsValues == {"", "C1, C2"}
SlackConfigs(server) ==
    {cfg \in [botToken : {"", StaticToken}, oauth : BOOLEAN, channelIds : ChannelIdsValues] :
        IF server = "index" THEN cfg.botToken # "" /\ ~cfg.oauth
        ELSE IsStaticTokenConfigured(cfg) \/ IsOAuthConfigured(cfg)}

\* new WebClient(config.SLACK_BOT_TOKEN), or new WebClient() before the OAuth flow
InitialToken(cfg) == cfg.botToken

SlackNames == baseTools \cup oauthTools \cup {"slack_delete_message"}
SlackChannels == {"C1", "C9"}

NoCall == [pc |-> "idle"]

SlackInit ==
    /\ IdleExceptSlack
    /\ slackServer \in {"index", "enhanced"}
    /\ config \in SlackConfigs(slackServer)
    /\ slack = [token |-> InitialToken(config)]
    /\ slCalls = [s \in Slots |-> NoCall]
    /\ slLast = [event |-> "none", name |-> "", channel |-> "",
                 before |-> InitialToken(config), out |-> SlackReturns(""),
                 channels |-> {}, answer |-> SlackAnswer("none", FALSE, "", <<>>)]

\* A tool call arrives and runs to its first await, in the lowest free slot.
SlackCall(s) ==
    /\ slCalls[s] = NoCall
    /\ \A r \in 1..(s - 1) : slCalls[r] # NoCall
    /\ \E name \in SlackNames, channel \in SlackChannels :
       /\ name \in ChannelTools \/ channel = "C1"
       /\ \E out \in {CallTool(slackServer, config, slack.token, name, channel)} :
          /\ slCalls' = [slCalls EXCEPT ![s] =
                            IF out.ended THEN NoCall
                            ELSE [pc |-> "awaiting", name |-> name, api |-> out.api]]
          /\ slLast' = [event |-> "call", name |-> name, channel |-> channel,
                        before |-> slack.token, out |-> out, channels |-> {},
                        answer |-> SlackAnswer("none", FALSE, "", <<>>)]
    /\ UNCHANGED <<slackServer, config, slack, exceptSlack>>

\* The awaited request is answered and the handler runs to its end.
SlackAnswers(s) ==
    /\ slCalls[s] # NoCall
    /\ \E answer \in SlackResponses(slCalls[s].api) :
       \E r \in {CallToolResume(config, slack.token, slCalls[s], answer)} :
          /\ slack' = [token |-> r.token]
          /\ slLast' = [event |-> "answer", name |-> slCalls[s].name, channel |-> "",
                        before |-> slack.token,
                        out |-> [requested |-> FALSE, api |-> "", channel |-> "",
                                 token |-> "", ended |-> TRUE, isError |-> r.isError,
                                 text |-> r.text],
                        channels |-> r.channels, answer |-> answer]
    /\ slCalls' = [slCalls EXCEPT ![s] = NoCall]
    /\ UNCHANGED <<slackServer, config, exceptSlack>>

NextSlack == \E s \in Slots : SlackCall(s) \/ SlackAnswers(s)

SpecSlack == SlackInit /\ [][NextSlack]_vars

(***************************************************************************)
(* Claims about the Slack servers                                          *)
(***************************************************************************)
\* C21: tool invocations are independent and stateless: under any
\* interleaving of invocations, what an invocation requests and returns is
\* what it requests and returns when it runs alone on the server as it
\* started, and no call changes the client the calls share.
C21_CallsIndependent ==
    /\ slack.token = InitialToken(config)
    /\ slLast.event = "call" =>
           slLast.out = CallTool(slackServer, config, InitialToken(config),
                                 slLast.name, slLast.channel)

\* C23: in the OAuth-enabled server, once slack_exchange_oauth_code has
\* succeeded, every regular tool the server lists is executed with the new
\* token.
C23_RegularToolsUseNewToken ==
    (/\ slackServer = "enhanced"
     /\ slLast.event = "call"
     /\ slLast.name \in baseTools \cap tools(slackServer, config)
     /\ slLast.before \in ExchangeTokens) =>
        /\ slLast.out.requested
        /\ slLast.out.api = SlackApi[slLast.name]
        /\ slLast.out.token = slLast.before

\* C24: when SLACK_CHANNEL_IDS is configured, slack_list_channels returns
\* only channels whose id is in the list, and no tool call posts to, replies
\* or reacts in, or reads the history or the replies of a channel whose id
\* is not in the list.
C24_ChannelAllowList ==
    (slackServer = "index" /\ AllowedChannels(config).limited) =>
        /\ (slLast.event = "answer" /\ slLast.name = "slack_list_channels") =>
               slLast.channels \subseteq AllowedChannels(config).ids
        /\ (slLast.event = "call" /\ slLast.out.requested /\ slLast.out.channel # "") =>
               slLast.out.channel \in AllowedChannels(config).ids

\* C30: in the OAuth-enabled server, over any sequence of tool calls: no
\* regular tool issues a Slack request while the client holds no token; the
\* client's token changes only through a successful slack_exchange_oauth_code
\* that returns an access token; a failed exchange leaves the client
\* unchanged; a client that holds a token never loses it.
C30_TokenLifecycle ==
    slackServer = "enhanced" =>
        /\ (slLast.event = "call" /\ slLast.name \notin oauthTools /\ slLast.out.requested) =>
               (slLast.before # "" /\ slLast.out.token = slLast.before)
        /\ slack.token # slLast.before =>
               /\ slLast.event = "answer"
               /\ slLast.name = "slack_exchange_oauth_code"
               /\ ~slLast.out.isError
               /\ slLast.answer.kind = "json" /\ slLast.answer.ok
               /\ slLast.answer.access_token # ""
               /\ slack.token = slLast.answer.access_token
        /\ (slLast.event = "answer" /\ slLast.name = "slack_exchange_oauth_code"
               /\ slLast.out.isError) => slack.token = slLast.before
        /\ slLast.before # "" => slack.token # ""

\* A second exchange replaced the token of the first.
C30_Witness ==
    /\ slackServer = "enhanced"
    /\ slLast.event = "answer" /\ slLast.name = "slack_exchange_oauth_code"
    /\ slLast.before \in ExchangeTokens
    /\ slack.token \in ExchangeTokens \ {slLast.before}

(***************************************************************************)
(* Specification SpecReshape: the response transform of searchTasks        *)
(* applied to one item of a response                                       *)
(***************************************************************************)
\* The most custom fields of an item
MaxFields == 3

FieldLists(n) == UNION {[1..k -> {EnumField, TextField, UnsetEnumField}] : k \in 0..n}

TaskDated == Spread(TaskPlain, "due_on" :> Null)

ReshapeInputs ==
    {TaskPlain, TaskDated}
        \cup {Spread(task, "custom_fields" :> cf) :
                  task \in {TaskPlain, TaskDated},
                  cf \in {Null} \cup {Arr(fields) : fields \in FieldLists(MaxFields)}}

ReshapeInit ==
    /\ IdleExceptReshape
    /\ rPc = "input"
    /\ rIn \in ReshapeInputs
    /\ rOut = <<>>

Reshape ==
    /\ rPc = "input"
    /\ rOut' = TransformTask(rIn)
    /\ rPc' = "done"
    /\ UNCHANGED <<rIn, exceptReshape>>

NextReshape == Reshape

SpecReshape == ReshapeInit /\ [][NextReshape]_vars

\* The entry the reshaped map holds for a custom field
FieldKey(field) == field.name \o " (" \o field.gid \o ")"
FieldValue(field) ==
    IF field.type = "enum" /\ ~IsNull(field.enum_value)
    THEN Text(field.display_value.t \o " (" \o field.enum_value.o["gid"].t \o ")")
    ELSE field.display_value

\* C22: reshaping returns an item without a custom_fields value unchanged;
\* an item whose custom_fields array is empty keeps every other field and
\* gets no custom-field entry; for an item with custom fields the array is
\* replaced by a map from "<name> (<id>)" to the display value, extended
\* with the selected option's id in parentheses for an enum field with a
\* selected value.
C22_Reshape ==
    rPc = "done" =>
        LET cf == Get(rIn, "custom_fields") IN
        IF IsUndefined(cf) \/ IsNull(cf) THEN rOut = rIn
        ELSE /\ DOMAIN rOut = DOMAIN rIn
             /\ \A k \in DOMAIN rIn \ {"custom_fields"} : rOut[k] = rIn[k]
             /\ IsObj(rOut["custom_fields"])
             /\ DOMAIN rOut["custom_fields"].o = {FieldKey(cf.a[i]) : i \in 1..Len(cf.a)}
             /\ \A i \in 1..Len(cf.a) :
                    rOut["custom_fields"].o[FieldKey(cf.a[i])] = FieldValue(cf.a[i])

\* An item with a selected enum field and a text field was reshaped.
C22_Witness ==
    /\ rPc = "done"
    /\ Get(rIn, "custom_fields") = Arr(<<EnumField, TextField>>)
    /\ rOut["custom_fields"] = Obj(("Priority (111)" :> Text("High (900)"))
                                   @@ ("Team (222)" :> Text("eng")))

(***************************************************************************)
(* Further claims about the tool handler (Spec)                            *)
(***************************************************************************)
\* C25: asana_search_tasks accepts a custom_fields map whose entry value is
\* a scalar (the equality-filter form): validation passes and the outbound
\* search request carries custom_fields.<fieldId>.value with that scalar.
C25_ScalarCustomField ==
    (/\ hPc \in {"awaiting", "done"}
     /\ ~isReadOnlyMode
     /\ hReq.name = "asana_search_tasks"
     /\ ~IsUndefined(hReq.args)
     /\ Get(hReq.args.o, "custom_fields") = Obj(ScalarFormMap)
     /\ ~ValidateSearchTasksParams(
             Obj(Rest(hReq.args.o, {"custom_fields"}))).threw) =>
        /\ Len(hOut) = 1
        /\ Get(hOut[1].params, "custom_fields.111.value") = ScalarFormMap["111"]

\* The validator the handler applies to the arguments of a request rejects them.
ValidationFails(req) ==
    CASE req.name = "asana_search_tasks" -> ValidateSearchTasksParams(req.args).threw
      [] req.name = "asana_get_task" ->
             ValidateParams(GetTaskSchema, req.args, req.name).threw
      [] req.name \in BulkTools ->
             ValidateParams(BulkSchemas[req.name], req.args, req.name).threw
      [] OTHER -> FALSE

\* C26: for every tool whose arguments the handler validates, a validation
\* failure reaches the caller as the validation-failure kind (InvalidParams),
\* never as an internal or server error kind.
C26_ValidationFailureKind ==
    (/\ hPc = "done"
     /\ ~IsUndefined(hReq.args)
     /\ hValidated # <<>>
     /\ ValidationFails(hReq)) =>
        /\ hRes.kind = "error"
        /\ hRes.mcp = "InvalidParams"


(***************************************************************************)
(* Claims about the advertised tools                                       *)
(***************************************************************************)
\* list_of_tools: the names the server advertises in a mode
list_of_tools(readOnly) ==
    IF readOnly THEN {n \in Range(all_tools) : n \in READ_ONLY_TOOLS}
    ELSE Range(all_tools)

\* C27: an invocation, with arguments, of a tool the server advertises in
\* its mode is dispatched to that tool's case: it never ends with the
\* "Unknown tool" failure of the switch's default branch.
C27_AdvertisedToolsDispatched ==
    (/\ hPc = "done"
     /\ ~IsUndefined(hReq.args)
     /\ hReq.name \in list_of_tools(isReadOnlyMode)) =>
        ~(/\ hRes.kind = "error"
          /\ hRes.msg.text = "tool execution: " \o hReq.name \o ": Unknown tool: " \o hReq.name)


\* C28: fetching several tasks by id returns, once every fetch is answered,
\* an array whose i-th element is the task of the i-th requested id, in
\* whatever order the fetches were answered.
C28_ResultsInRequestOrder ==
    (/\ hPc = "done"
     /\ hReq.name = "asana_get_multiple_tasks_by_gid"
     /\ hRes.kind = "ok") =>
        LET ids == RequestedIds(Get(hReq.args.o, "task_ids")) IN
        /\ IsArr(hRes.json)
        /\ Len(hRes.json.a) = Len(ids)
        /\ \A i \in 1..Len(ids) : hRes.json.a[i] = TaskWithGid(ids[i])

\* 25 tasks were fetched and the answer to the last request came before
\* the answer to an earlier one.
C28_Witness ==
    /\ hPc = "done"
    /\ hReq.name = "asana_get_multiple_tasks_by_gid"
    /\ hRes.kind = "ok"
    /\ Len(hGot) = MultiFetchLimit
    /\ hGot[MultiFetchLimit].req < MultiFetchLimit
    /\ \E k \in 1..Len(hGot) - 1 : hGot[k].req = MultiFetchLimit


(***************************************************************************)
(* Collecting the pages of a listing (utils/index.ts)                      *)
(***************************************************************************)
\* The most pages a call is asked for
MaxPages == 3
PageCounts == (0 - 1)..MaxPages

baseParams == ("project" :> Str(Chars("123")))

\* createPaginationParams(currentOffset ? { offset: currentOffset } : {}):
\* the options are validated (offset: z.string().optional()), the limit
\* defaults, the offset is added when there is one.
PageParams(offset) ==
    LET o == IF Truthy(offset) THEN offset ELSE Undefined
    IN IF ~(IsUndefined(o) \/ IsStr(o))
       THEN [ok |-> FALSE, params |-> EmptyMap]
       ELSE [ok |-> TRUE,
             params |-> ("limit" :> CreatePaginationParams(Undefined).limit)
                        @@ (IF Truthy(o) THEN ("offset" :> o) ELSE EmptyMap)]

\* extractPaginationInfo(response), for a response that is not null
ExtractPaginationInfo(response) ==
    LET data == IF IsArr(response) THEN response
                ELSE IF Truthy(Get(response.o, "data")) THEN Get(response.o, "data")
                ELSE Arr(<<>>)
        next == IF IsArr(response) THEN Undefined ELSE Get(response.o, "next_page")
    IN [data |-> data, next_page |-> IF Truthy(next) THEN next ELSE Null]

hasMorePages(response) ==
    ~IsNull(response.next_page) /\ ~IsUndefined(response.next_page)

\* response.next_page?.offset || null
getNextPageOffset(response) ==
    LET offset == IF IsObj(response.next_page)
                  THEN Get(response.next_page.o, "offset") ELSE Undefined
    IN IF Truthy(offset) THEN offset ELSE Null

PageReturns(results) == [kind |-> "return", value |-> results, message |-> ""]
PageThrows(message) == [kind |-> "throw", value |-> <<>>, message |-> message]
PageRequests(params) == [kind |-> "request", value |-> <<>>, message |-> "", params |-> params]

\* A buggy variant: one page more than asked for.
collectAllPagesInclusive(max, count, offset, results) ==
    IF ~(count <= max) THEN PageReturns(results)
    ELSE IF ~PageParams(offset).ok
    THEN PageThrows("Invalid pagination options: Expected string, received number")
    ELSE PageRequests(Spread(baseParams, PageParams(offset).params))

\* collectAllPages from the head of its while loop to the next await:
\* it returns, or createPaginationParams throws, or requestFn is called.
collectAllPages(max, count, offset, results) ==
    IF ~(count < max) THEN PageReturns(results)
    ELSE IF ~PageParams(offset).ok
    THEN PageThrows("Invalid pagination options: Expected string, received number")
    ELSE PageRequests(Spread(baseParams, PageParams(offset).params))

\* The items a page may hold
PageData == { <<>>, <<Text("a")>>, <<Text("b"), Text("c")>> }

\* The next_page member a response may have
NextPages ==
    {Null, Obj(EmptyMap), Obj("offset" :> Null), Obj("offset" :> Str(<<>>)),
     Obj("offset" :> Str(Chars("o1"))), Obj("offset" :> Str(Chars("o2"))),
     Obj("offset" :> Num(5))}

\* What the vendor may answer: a bare array, an object with data and
\* next_page, one without next_page, one without data, null.
PageResponses ==
    {Arr(d) : d \in PageData}
        \cup {Obj(("data" :> Arr(d)) @@ ("next_page" :> n)) : d \in PageData, n \in NextPages}
        \cup {Obj("data" :> Arr(d)) : d \in PageData}
        \cup {Obj("next_page" :> Obj("offset" :> Str(Chars("o1")))), Null}

PagesInit ==
    /\ IdleExceptPages
    /\ pgPc = "call"
    /\ maxPages \in PageCounts
    /\ pgReqs = <<>>
    /\ pgResps = <<>>
    /\ currentOffset = Undefined
    /\ pageCount = 0
    /\ allResults = <<>>
    /\ pgRes = [kind |-> "none"]

\* The loop runs from its head with the given locals.
PageLoop(count, offset, results) ==
    \E step \in {collectAllPages(maxPages, count, offset, results)} :
       /\ pageCount' = count
       /\ currentOffset' = offset
       /\ allResults' = results
       /\ IF step.kind = "request"
          THEN /\ pgReqs' = Append(pgReqs, step.params)
               /\ pgPc' = "awaiting"
               /\ UNCHANGED pgRes
          ELSE /\ pgRes' = step
               /\ pgPc' = "done"
               /\ UNCHANGED pgReqs

\* collectAllPages is called.
CollectAllPagesStart ==
    /\ pgPc = "call"
    /\ PageLoop(0, Undefined, <<>>)
    /\ UNCHANGED <<maxPages, pgResps, exceptPages>>

\* The vendor answers the outstanding request; the loop body goes on
\* behind the await, to a break or through the next head.
PageAnswers ==
    /\ pgPc = "awaiting"
    /\ \E response \in PageResponses :
       /\ pgResps' = Append(pgResps, response)
       /\ IF IsNull(response)
          THEN /\ pgRes' = PageThrows("Pagination request failed: Cannot read properties of null (reading 'data')")
               /\ pgPc' = "done"
               /\ UNCHANGED <<pgReqs, currentOffset, pageCount, allResults>>
          ELSE \E info \in {ExtractPaginationInfo(response)} :
               IF ~hasMorePages(info) \/ ~Truthy(getNextPageOffset(info))
               THEN /\ allResults' = allResults \o info.data.a
                    /\ pageCount' = pageCount + 1
                    /\ currentOffset' = IF hasMorePages(info)
                                        THEN getNextPageOffset(info) ELSE currentOffset
                    /\ pgRes' = PageReturns(allResults')
                    /\ pgPc' = "done"
                    /\ UNCHANGED pgReqs
               ELSE PageLoop(pageCount + 1, getNextPageOffset(info),
                             allResults \o info.data.a)
    /\ UNCHANGED <<maxPages, exceptPages>>

\* The request fails; paginateAsanaRequest wraps the error.
PageFails ==
    /\ pgPc = "awaiting"
    /\ \E e \in VendorErrors :
           pgRes' = PageThrows("Pagination request failed: " \o e.msg.text)
    /\ pgPc' = "done"
    /\ UNCHANGED <<maxPages, pgReqs, pgResps, currentOffset, pageCount, allResults,
                   exceptPages>>

NextPage == CollectAllPagesStart \/ PageAnswers \/ PageFails

SpecPages == PagesInit /\ [][NextPage]_vars

\* Every request the vendor receives is answered or fails.
FairSpecPages == SpecPages /\ WF_vars(NextPage)


(***************************************************************************)
(* Claims about collecting pages                                           *)
(***************************************************************************)
\* The offset a response offers for the page after it, if any
OfferedOffset(response) ==
    IF IsObj(response) /\ IsObj(Get(response.o, "next_page"))
    THEN Get(Get(response.o, "next_page").o, "offset")
    ELSE Undefined

\* The response has no next page, or an empty offset.
LastPage(response) == ~Truthy(OfferedOffset(response))

\* The items of a response
PageItems(response) ==
    IF IsArr(response) THEN response.a
    ELSE IF IsObj(response) /\ IsArr(Get(response.o, "data"))
    THEN Get(response.o, "data").a
    ELSE <<>>

RECURSIVE ConcatPages(_)
ConcatPages(responses) ==
    IF responses = <<>> THEN <<>>
    ELSE ConcatPages(SubSeq(responses, 1, Len(responses) - 1))
             \o PageItems(responses[Len(responses)])

PagesAsked == IF maxPages > 0 THEN maxPages ELSE 0

CollectedInOrder ==
    /\ Len(pgReqs) <= PagesAsked
    /\ Len(pgResps) <= Len(pgReqs)
    /\ \A k \in 1..Len(pgResps) :
           LastPage(pgResps[k]) => (k = Len(pgReqs) /\ pgPc = "done")
    /\ \A k \in 1..Len(pgReqs) :
           Get(pgReqs[k], "offset") = IF k = 1 THEN Undefined
                                      ELSE OfferedOffset(pgResps[k - 1])
    /\ (pgPc = "done" /\ pgRes.kind = "return") =>
           /\ Len(pgResps) = Len(pgReqs)
           /\ pgRes.value = ConcatPages(pgResps)
           /\ \/ Len(pgReqs) = PagesAsked
              \/ LastPage(pgResps[Len(pgResps)])

\* C29: collectAllPages terminates whatever the vendor answers, also when
\* every response offers a next offset: it issues at most maxPages requests
\* (none when maxPages is 0 or negative), issues none after the first
\* response that has no next page or an empty offset, asks for each later
\* page with the offset of the response before, and returns the items of
\* the pages concatenated in request order.
C29_CollectAllPagesTerminates == []CollectedInOrder /\ <>(pgPc = "done")

\* The vendor offered a further page every time, with different items in
\* the pages; the call stopped after maxPages requests.
C29_Witness ==
    /\ pgPc = "done"
    /\ pgRes.kind = "return"
    /\ maxPages = MaxPages
    /\ Len(pgReqs) = MaxPages
    /\ \A k \in 1..Len(pgResps) : ~LastPage(pgResps[k])
    /\ PageItems(pgResps[1]) = <<Text("b"), Text("c")>>
    /\ PageItems(pgResps[2]) = <<Text("a")>>
    /\ OfferedOffset(pgResps[1]) # OfferedOffset(pgResps[2])

=============================================================================
